---- MODULE Spec2Model ----
(***************************************************************************)
(* Model of the lab-report analysis pipeline of src/lib/groq.ts:           *)
(* the text chunker (chunkText) and the analysis orchestrator              *)
(* (analyzeLabReportEnhanced) with the external completion calls it makes. *)
(*                                                                         *)
(* Strings are run-length encoded: a string is a sequence of runs          *)
(* [ch, n] (n >= 1 copies of the character ch) in which adjacent runs hold *)
(* different characters.  The alphabet is "a" (any character that is       *)
(* neither whitespace nor '='), "=" and NL (the newline, the whitespace    *)
(* character).  The encoding lets the model use the program's own sizes    *)
(* (6000, 5000) while the string operations stay exact.                    *)
(***************************************************************************)
EXTENDS Integers, Sequences, FiniteSets, TLC

NL == "\n"

\* ---------------------------------------------------------------- bounds
MaxRuns == 5          \* runs in an input text of the chunker
SmallSize == 6        \* the small maxChunkSize the chunker is also tried with
MaxOrchRuns == 5      \* runs in a document given to the orchestrator
MaxPages == 2         \* pages of a document given to the orchestrator

\* ------------------------------------------------------ program constants
DefaultChunkSize == 6000
SinglePassThreshold == 5000

\* --------------------------------------------------------- string library
Run(c, k) == [ch |-> c, n |-> k]

EmptyStr == << >>

\* String.prototype.length
RECURSIVE StrLen(_)
StrLen(s) == IF s = << >> THEN 0 ELSE Head(s).n + StrLen(Tail(s))

\* a + b on strings
Cat(s, t) ==
  IF s = << >> THEN t
  ELSE IF t = << >> THEN s
  ELSE IF s[Len(s)].ch = t[1].ch
       THEN SubSeq(s, 1, Len(s) - 1)
              \o << Run(t[1].ch, s[Len(s)].n + t[1].n) >>
              \o Tail(t)
       ELSE s \o t

IsSpace(c) == c = NL

\* String.prototype.trim
RECURSIVE TrimStart(_)
TrimStart(s) ==
  IF s = << >> THEN s
  ELSE IF IsSpace(Head(s).ch) THEN TrimStart(Tail(s)) ELSE s

RECURSIVE TrimEnd(_)
TrimEnd(s) ==
  IF s = << >> THEN s
  ELSE IF IsSpace(s[Len(s)].ch) THEN TrimEnd(SubSeq(s, 1, Len(s) - 1)) ELSE s

Trim(s) == TrimEnd(TrimStart(s))

ParagraphBreak == << Run(NL, 2) >>

Empties(k) == [i \in 1..k |-> EmptyStr]

\* section.split('\n\n'): the pieces between the non-overlapping occurrences
\* of "\n\n", found left to right.  A run of k newlines holds k \div 2
\* separators; an odd newline is left at the start of the following piece.
RECURSIVE SplitParagraphsFrom(_, _, _)
SplitParagraphsFrom(rest, cur, out) ==
  IF rest = << >> THEN Append(out, cur)
  ELSE LET r == Head(rest) IN
    IF r.ch = NL /\ r.n >= 2
    THEN SplitParagraphsFrom(Tail(rest),
           IF r.n % 2 = 1 THEN << Run(NL, 1) >> ELSE EmptyStr,
           Append(out, cur) \o Empties((r.n \div 2) - 1))
    ELSE SplitParagraphsFrom(Tail(rest), Cat(cur, << r >>), out)

SplitParagraphs(s) == SplitParagraphsFrom(s, EmptyStr, << >>)

\* Index of the first newline run of s at or after position i (Len(s)+1 if none).
RECURSIVE NextNewline(_, _)
NextNewline(s, i) ==
  IF i > Len(s) THEN i
  ELSE IF s[i].ch = NL THEN i ELSE NextNewline(s, i + 1)

\* /\n\n={2,}.*?={2,}\n\n/ matches with its first "\n\n" being the last two
\* newlines of the newline run s[1]: the line that follows (the runs up to
\* the next newline run; '.' matches no newline) starts with "==", ends with
\* "==", is at least 4 long, and is followed by at least two newlines.
MarkerAt(s) ==
  LET j == NextNewline(s, 2) IN
    /\ Len(s) >= 3
    /\ s[1].ch = NL /\ s[1].n >= 2
    /\ j <= Len(s) /\ j >= 3
    /\ s[j].n >= 2
    /\ s[2].ch = "=" /\ s[2].n >= 2
    /\ s[j - 1].ch = "=" /\ s[j - 1].n >= 2
    /\ (j = 3 => s[2].n >= 4)

\* text.split(/\n\n={2,}.*?={2,}\n\n/): the pieces between the matches, found
\* left to right; a match consumes two newlines on each side of the marker
\* line and the marker line itself.
RECURSIVE SplitSectionsFrom(_, _, _)
SplitSectionsFrom(rest, cur, out) ==
  IF rest = << >> THEN Append(out, cur)
  ELSE IF MarkerAt(rest)
  THEN LET j == NextNewline(rest, 2)
           before == IF rest[1].n > 2 THEN << Run(NL, rest[1].n - 2) >> ELSE EmptyStr
           after == IF rest[j].n > 2 THEN << Run(NL, rest[j].n - 2) >> ELSE EmptyStr
       IN SplitSectionsFrom(after \o SubSeq(rest, j + 1, Len(rest)),
                            EmptyStr,
                            Append(out, Cat(cur, before)))
  ELSE SplitSectionsFrom(Tail(rest), Cat(cur, << Head(rest) >>), out)

SplitSections(s) == SplitSectionsFrom(s, EmptyStr, << >>)

\* ---------------------------------------------------------------- chunkText
\* the loop state of chunkText: chunks and currentChunk
LoopState(cs, cur) == [chunks |-> cs, currentChunk |-> cur]

\* the paragraph loop pushing currentChunk without trimming it
AccumulateParagraph_Untrimmed(st, paragraph, maxChunkSize) ==
  IF StrLen(Cat(st.currentChunk, paragraph)) > maxChunkSize
       /\ StrLen(st.currentChunk) > 0
  THEN LoopState(Append(st.chunks, st.currentChunk),
                 Cat(paragraph, ParagraphBreak))
  ELSE LoopState(st.chunks,
                 Cat(Cat(st.currentChunk, paragraph), ParagraphBreak))

\* body of the paragraph loop
AccumulateParagraph(st, paragraph, maxChunkSize) ==
  IF StrLen(Cat(st.currentChunk, paragraph)) > maxChunkSize
       /\ StrLen(st.currentChunk) > 0
  THEN LoopState(Append(st.chunks, Trim(st.currentChunk)),
                 Cat(paragraph, ParagraphBreak))
  ELSE LoopState(st.chunks,
                 Cat(Cat(st.currentChunk, paragraph), ParagraphBreak))

RECURSIVE ParagraphLoop(_, _, _)
ParagraphLoop(paragraphs, st, maxChunkSize) ==
  IF paragraphs = << >> THEN st
  ELSE ParagraphLoop(Tail(paragraphs),
                     AccumulateParagraph(st, Head(paragraphs), maxChunkSize),
                     maxChunkSize)

\* the else branch of the section loop: try to add the whole section
AccumulateSection(st, section, maxChunkSize) ==
  IF StrLen(Cat(st.currentChunk, section)) > maxChunkSize
       /\ StrLen(st.currentChunk) > 0
  THEN LoopState(Append(st.chunks, Trim(st.currentChunk)),
                 Cat(section, ParagraphBreak))
  ELSE LoopState(st.chunks,
                 Cat(Cat(st.currentChunk, section), ParagraphBreak))

RECURSIVE SectionLoop_AlwaysParagraphs(_, _, _)
\* every section is split at its blank lines, whatever its length
SectionLoop_AlwaysParagraphs(sections, st, maxChunkSize) ==
  IF sections = << >> THEN st
  ELSE SectionLoop_AlwaysParagraphs(Tail(sections),
         ParagraphLoop(SplitParagraphs(Head(sections)), st, maxChunkSize),
         maxChunkSize)

RECURSIVE SectionLoop(_, _, _)
SectionLoop(sections, st, maxChunkSize) ==
  IF sections = << >> THEN st
  ELSE LET section == Head(sections) IN
    SectionLoop(Tail(sections),
                IF StrLen(section) > maxChunkSize
                THEN ParagraphLoop(SplitParagraphs(section), st, maxChunkSize)
                ELSE AccumulateSection(st, section, maxChunkSize),
                maxChunkSize)

\* the early return taken only below the maximum size
FitsInOneChunk_Strict(text, maxChunkSize) == StrLen(text) < maxChunkSize

\* the early return of chunkText
FitsInOneChunk(text, maxChunkSize) == StrLen(text) <= maxChunkSize

\* the last chunk forgotten after the loops
FlushLast_Dropped(st) == st.chunks

\* the flush of the last chunk after the loops
FlushLast(st) ==
  IF StrLen(Trim(st.currentChunk)) > 0
  THEN Append(st.chunks, Trim(st.currentChunk))
  ELSE st.chunks

\* const chunks after the loops and the flush
SplitOutput(text, maxChunkSize) ==
  FlushLast(SectionLoop(SplitSections(text), LoopState(<< >>, EmptyStr),
                        maxChunkSize))

\* the chunks returned as they are, even when there are none
OrWholeText_Bare(chunks, text) == chunks

\* return chunks.length > 0 ? chunks : [text]
OrWholeText(chunks, text) == IF Len(chunks) > 0 THEN chunks ELSE << text >>

chunkText(text, maxChunkSize) ==
  IF FitsInOneChunk(text, maxChunkSize) THEN << text >>
  ELSE OrWholeText(SplitOutput(text, maxChunkSize), text)


\* --------------------------------------- RecursiveCharacterTextSplitter
\* the characters of s at positions from .. to - 1 (counted from 0)
RECURSIVE SubStr(_, _, _)
SubStr(s, from, to) ==
  IF s = << >> \/ to <= 0 \/ from >= to THEN EmptyStr
  ELSE LET r == Head(s)
           lo == IF from > 0 THEN from ELSE 0
           hi == IF to < r.n THEN to ELSE r.n
       IN IF lo < hi
          THEN Cat(<< Run(r.ch, hi - lo) >>, SubStr(Tail(s), from - r.n, to - r.n))
          ELSE SubStr(Tail(s), from - r.n, to - r.n)

\* text.includes(separator) for the separator of k newlines
HasSeparator(s, k) == \E x \in 1..Len(s) : s[x].ch = NL /\ s[x].n >= k

SingleNewlines(k) == [x \in 1..k |-> << Run(NL, 1) >>]

\* splitOnSeparator with keepSeparator: text.split(/(?=separator)/) for the
\* separator of k newlines, empty pieces filtered out.  The text is cut
\* before every newline that starts an occurrence of the separator (never at
\* position 0), so the separator stays at the head of the piece after it.
RECURSIVE SplitKeepFrom(_, _, _, _)
SplitKeepFrom(rest, k, cur, out) ==
  IF rest = << >> THEN (IF cur = EmptyStr THEN out ELSE Append(out, cur))
  ELSE LET r == Head(rest) IN
    IF r.ch = NL /\ r.n >= k
    THEN SplitKeepFrom(Tail(rest), k, << Run(NL, k) >>,
           (IF cur = EmptyStr THEN out ELSE Append(out, cur))
             \o SingleNewlines(r.n - k))
    ELSE SplitKeepFrom(Tail(rest), k, Cat(cur, << r >>), out)

SplitKeep(s, k) == SplitKeepFrom(s, k, EmptyStr, << >>)

RECURSIVE TotalLen(_)
TotalLen(ss) == IF ss = << >> THEN 0 ELSE StrLen(Head(ss)) + TotalLen(Tail(ss))

\* joinDocs with the separator "": the pieces joined and trimmed; the result
\* is dropped when it is empty
JoinDocs(docs, currentDoc) ==
  LET joined == Trim(IF currentDoc = << >> THEN EmptyStr
                     ELSE Cat(Head(currentDoc),
                              IF Len(currentDoc) = 1 THEN EmptyStr
                              ELSE (LET RECURSIVE J(_)
                                        J(ss) == IF ss = << >> THEN EmptyStr
                                                 ELSE Cat(Head(ss), J(Tail(ss)))
                                    IN J(Tail(currentDoc)))))
  IN IF joined = EmptyStr THEN docs ELSE Append(docs, joined)

\* the while loop of mergeSplits: pieces are dropped from the front of
\* currentDoc while more than the overlap is kept or the next piece does not fit
RECURSIVE PopFront(_, _, _, _)
PopFront(currentDoc, len, chunkSize, chunkOverlap) ==
  LET total == TotalLen(currentDoc) IN
    IF total > chunkOverlap \/ (total + len > chunkSize /\ total > 0)
    THEN PopFront(Tail(currentDoc), len, chunkSize, chunkOverlap)
    ELSE currentDoc

\* mergeSplits(splits, "")
RECURSIVE MergeSplitsFrom(_, _, _, _, _)
MergeSplitsFrom(splits, docs, currentDoc, chunkSize, chunkOverlap) ==
  IF splits = << >> THEN JoinDocs(docs, currentDoc)
  ELSE LET d == Head(splits)
           len == StrLen(d)
       IN IF TotalLen(currentDoc) + len > chunkSize /\ Len(currentDoc) > 0
          THEN MergeSplitsFrom(Tail(splits),
                 JoinDocs(docs, currentDoc),
                 Append(PopFront(currentDoc, len, chunkSize, chunkOverlap), d),
                 chunkSize, chunkOverlap)
          ELSE MergeSplitsFrom(Tail(splits), docs, Append(currentDoc, d),
                 chunkSize, chunkOverlap)

MergeSplits(splits, chunkSize, chunkOverlap) ==
  MergeSplitsFrom(splits, << >>, << >>, chunkSize, chunkOverlap)

\* _splitText with the separator "": the text is split into its characters
\* and mergeSplits packs them, so the windows are the trimmed stretches of
\* chunkSize characters that start every chunkSize - chunkOverlap characters
RECURSIVE HardCutFrom(_, _, _, _)
HardCutFrom(s, start, chunkSize, chunkOverlap) ==
  LET piece == Trim(SubStr(s, start, start + chunkSize))
      here == IF piece = EmptyStr THEN << >> ELSE << piece >>
  IN IF start + chunkSize >= StrLen(s) THEN here
     ELSE here \o HardCutFrom(s, start + chunkSize - chunkOverlap,
                              chunkSize, chunkOverlap)

HardCut(s, chunkSize, chunkOverlap) ==
  IF s = EmptyStr THEN << >> ELSE HardCutFrom(s, 0, chunkSize, chunkOverlap)

\* the separator _splitText picks among those still allowed: "\n\n" (2),
\* "\n" (1) or "" (0); ". " and " " do not occur in the alphabet
PickSeparator(s, allowed) ==
  IF allowed >= 2 /\ HasSeparator(s, 2) THEN 2
  ELSE IF allowed >= 1 /\ HasSeparator(s, 1) THEN 1
  ELSE 0

\* _splitText(text, separators)
RECURSIVE SplitTextWith(_, _, _, _)
RECURSIVE SplitLoop(_, _, _, _, _, _)
SplitLoop(splits, goodSplits, finalChunks, sep, chunkSize, chunkOverlap) ==
  IF splits = << >>
  THEN finalChunks \o MergeSplits(goodSplits, chunkSize, chunkOverlap)
  ELSE LET piece == Head(splits) IN
    IF StrLen(piece) < chunkSize
    THEN SplitLoop(Tail(splits), Append(goodSplits, piece), finalChunks,
                   sep, chunkSize, chunkOverlap)
    ELSE SplitLoop(Tail(splits), << >>,
                   finalChunks
                     \o MergeSplits(goodSplits, chunkSize, chunkOverlap)
                     \o SplitTextWith(piece, sep - 1, chunkSize, chunkOverlap),
                   sep, chunkSize, chunkOverlap)

SplitTextWith(s, allowed, chunkSize, chunkOverlap) ==
  LET sep == PickSeparator(s, allowed) IN
    IF sep = 0 THEN HardCut(s, chunkSize, chunkOverlap)
    ELSE SplitLoop(SplitKeep(s, sep), << >>, << >>, sep, chunkSize, chunkOverlap)

\* textSplitter.splitText(reportContent)
SplitText(s, chunkSize, chunkOverlap) ==
  SplitTextWith(s, 2, chunkSize, chunkOverlap)

\* ----------------------------------------------------------------- state
VARIABLES
  text,            \* chunkText: the text argument of the call under study
  maxChunkSize,    \* chunkText: the maxChunkSize argument
  returned,        \* chunkText: the returned chunks (<< >> before the call)
  groqReady,       \* module-level groq client is non-null
  extractedText,   \* analyzeLabReportEnhanced: argument
  pageCount,       \* analyzeLabReportEnhanced: argument
  pc,              \* analyzeLabReportEnhanced: position in the function
  chunks,          \* analyzeLabReportEnhanced: const chunks
  i,               \* analyzeLabReportEnhanced: loop index
  chunkAnalyses,   \* analyzeLabReportEnhanced: const chunkAnalyses
  inflight,        \* external completion requests awaiting their response
  log,             \* external requests issued and responses received, in order
  outcome,         \* what analyzeLabReportEnhanced gave its caller
  geminiKey,       \* process.env.GEMINI_API_KEY is set
  vectorStoreCache,\* vectorStore.ts: reportId -> MemoryVectorStore
  tasks,           \* the calls of vectorStore.ts / langchain-chat.ts in progress
  labReports,      \* table lab_reports: report id -> row
  healthGoals,     \* table health_goals: report id -> generated sets stored
  upload,          \* the upload request being handled
  goalJobs,        \* report id -> the upload's generateHealthGoalsAsync call
  requests,        \* the chat and health-goals requests being handled
  ragIndex,        \* the vector store cache as the routes see it
  llmTexts,        \* the report texts the routes sent to a language model
  extraction,      \* the call of extractStructuredDataEnhanced under study
  progress         \* the progress request under study and its health goals

vars == << text, maxChunkSize, returned, groqReady, extractedText, pageCount,
           pc, chunks, i, chunkAnalyses, inflight, log, outcome,
           geminiKey, vectorStoreCache, tasks,
           labReports, healthGoals, upload, goalJobs, requests, ragIndex,
           llmTexts, extraction, progress >>

indexVars == << geminiKey, vectorStoreCache, tasks >>
routeVars == << labReports, healthGoals, upload, goalJobs, requests, ragIndex,
                llmTexts >>
appVars == << routeVars, extraction, progress >>
libVars == << text, maxChunkSize, returned, groqReady, extractedText,
              pageCount, pc, chunks, i, chunkAnalyses, inflight, log, outcome,
              geminiKey, vectorStoreCache, tasks, extraction, progress >>
chunkerVars == << text, maxChunkSize, returned >>
orchVars == << groqReady, extractedText, pageCount, pc, chunks, i,
               chunkAnalyses, inflight, log, outcome >>

\* ----------------------------------------------------------- input texts
\* every string of at most m runs drawn from the set runs
RECURSIVE TextsUpTo(_, _)
TextsUpTo(runs, m) ==
  IF m = 0 THEN { EmptyStr }
  ELSE LET shorter == TextsUpTo(runs, m - 1) IN
    shorter \cup
      { Append(t, r) : t \in { x \in shorter : Len(x) = m - 1 },
                       r \in runs }

Canonical(s) == \A k \in 1..(Len(s) - 1) : s[k].ch # s[k + 1].ch

\* run lengths placed around the chunk size S
ChunkerRuns(S) ==
  { Run("a", k) : k \in { 1, (S \div 2) - 1, (S \div 2) + 1, 2 * S } }
    \cup { Run(NL, k) : k \in 1..3 }
    \cup { Run("=", k) : k \in { 2, 4 } }

ChunkerTexts(S) == { t \in TextsUpTo(ChunkerRuns(S), MaxRuns) : Canonical(t) }

ChunkerSizes == { SmallSize, DefaultChunkSize }

\* a page marker between blank lines, as the PDF extraction writes it
PageMarker == << Run(NL, 2), Run("=", 4), Run(NL, 2) >>

\* pages of one or two paragraphs with lengths around the chunk size S
PageSections(S) ==
  { << Run("a", k) >> : k \in { 1, (S \div 2) + 1 } }
    \cup { << Run("a", k), Run(NL, 2), Run("a", m) >> :
             k, m \in { 1, (S \div 2) - 1, (S \div 2) + 1 } }

\* texts of two or three such pages
PagedTexts(S) ==
  { Cat(Cat(p, PageMarker), q) : p, q \in PageSections(S) }
    \cup { Cat(Cat(Cat(Cat(p, PageMarker), q), PageMarker), r) :
             p, q, r \in PageSections(S) }

\* ------------------------------------------------- chunker specification
\* the reports the calls are about
ReportIds == {"r1", "r2"}

\* no MemoryVectorStore: what vectorStoreCache.get gives for a missing key
NoStore == [reportId |-> "", from |-> EmptyStr, memoryVectors |-> << >>]

\* a task slot with no call in progress
IdleTask ==
  [op |-> "idle", reportId |-> "", reportContent |-> EmptyStr,
   hasMetadata |-> FALSE, topK |-> 0, pc |-> "Idle", documents |-> << >>,
   found |-> NoStore, vectorStore |-> NoStore, query |-> 0,
   relevantDocs |-> << >>, question |-> {}, context |-> EmptyStr,
   error |-> << >>, embedCalls |-> 0, searchCalls |-> 0, indexed |-> FALSE]

\* vectorStore.ts and langchain-chat.ts at rest
IndexIdle ==
  /\ geminiKey = FALSE
  /\ vectorStoreCache = [r \in ReportIds |-> NoStore]
  /\ tasks = [t \in 1..1 |-> IdleTask]

Pending == [status |-> "pending", value |-> [kind |-> "none", of |-> 0]]

OrchIdle ==
  /\ groqReady = FALSE
  /\ extractedText = EmptyStr
  /\ pageCount = 1
  /\ pc = "Idle"
  /\ chunks = << >>
  /\ i = 0
  /\ chunkAnalyses = << >>
  /\ inflight = {}
  /\ log = << >>
  /\ outcome = Pending

\* chunkText with no call under study
ChunkerIdle ==
  /\ text = EmptyStr
  /\ maxChunkSize = DefaultChunkSize
  /\ returned = << >>

\* ------------------------------------------------------- route values
\* the accounts, and the bearer tokens a request can carry: none, one that
\* no session accepts, and the session of each account
Users == {"u1", "u2"}
AccessTokens == {"", "bad", "tok1", "tok2"}

\* supabase.auth.getUser(): the id of the token's user, "" when it fails
UserOf(token) ==
  IF token = "tok1" THEN "u1" ELSE IF token = "tok2" THEN "u2" ELSE ""

\* what the upload stores as raw text when both PDF parsers threw
ExtractionFailedText == "Text extraction failed"

\* the text of a PDF, and the results the extraction step can leave in
\* extractedText: the text, nothing (a scanned PDF), or the sentinel
ReportText == "Glucose 110 mg/dL"
ExtractedTexts == {ReportText, "", ExtractionFailedText}

\* JavaScript null
Null == "null"

\* no row of lab_reports under an id
NoRow ==
  [user_id |-> "", raw_text |-> "", ai_analysis |-> Null,
   structured_data |-> Null, recommendations |-> Null]

\* no vector store cached under an id
NoIndex == [from |-> "", userId |-> ""]

\* the upload handler with no request
IdleUpload ==
  [pc |-> "Idle", token |-> "", userId |-> "", file |-> "", user |-> "",
   extractedText |-> "", aiAnalysis |-> Null, structuredData |-> Null,
   recommendations |-> Null, failed |-> {}, labReport |-> "", status |-> 0]

\* generateHealthGoalsAsync not called for a report
NoJob == [pc |-> "None", rawText |-> "", failed |-> FALSE]

\* a request slot of the chat and health-goals routes with no request
IdleRequest ==
  [op |-> "idle", pc |-> "Idle", token |-> "", userId |-> "",
   reportId |-> "", user |-> "", rawText |-> "", context |-> NoIndex,
   status |-> 0]

\* the routes at rest on an empty database
RouteIdle ==
  /\ labReports = [r \in ReportIds |-> NoRow]
  /\ healthGoals = [r \in ReportIds |-> 0]
  /\ upload = IdleUpload
  /\ goalJobs = [r \in ReportIds |-> NoJob]
  /\ requests = [q \in 1..1 |-> IdleRequest]
  /\ ragIndex = [r \in ReportIds |-> NoIndex]
  /\ llmTexts = {}

\* extractStructuredDataEnhanced not called
ExtractIdle ==
  extraction = [pc |-> "Idle", extractedText |-> EmptyStr, chunks |-> << >>,
                i |-> 0, allTests |-> << >>, calls |-> << >>,
                responses |-> << >>, result |-> << >>]

\* no progress request and no health goals
ProgressIdle ==
  progress = [pc |-> "Idle", table |-> << >>, healthGoals |-> << >>,
              progress_items |-> << >>, k |-> 0, writes |-> << >>]

AppIdle == RouteIdle /\ ExtractIdle /\ ProgressIdle

ChunkerInit ==
  /\ maxChunkSize \in ChunkerSizes
  /\ text \in ChunkerTexts(maxChunkSize) \cup PagedTexts(maxChunkSize)
  /\ returned = << >>
  /\ OrchIdle
  /\ IndexIdle
  /\ AppIdle

\* a call chunkText(text, maxChunkSize)
CallChunkText ==
  /\ returned = << >>
  /\ returned' = chunkText(text, maxChunkSize)
  /\ UNCHANGED << text, maxChunkSize >>
  /\ UNCHANGED orchVars
  /\ UNCHANGED indexVars
  /\ UNCHANGED appVars

ChunkerNext == CallChunkText

ChunkerSpec == ChunkerInit /\ [][ChunkerNext]_vars


\* ------------------------------------------ external completion service
\* message content of a completion: what was asked for, or nothing
Content(kind, of) == [kind |-> kind, of |-> of]
NoContent == Content("empty", 0)

\* what groq.chat.completions.create can do with a request for `kind`
\* about chunk `of`: answer with content, answer without content, or throw
Responses(kind, of) ==
  { [ok |-> TRUE, content |-> Content(kind, of)],
    [ok |-> TRUE, content |-> NoContent],
    [ok |-> FALSE, content |-> Content("request failed", of)] }

\* content || fallback
OrElse(content, fallback) == IF content = NoContent THEN fallback ELSE content

Returned(value) == [status |-> "returned", value |-> value]
Thrown(error) == [status |-> "thrown", value |-> error]

\* log entries: a request handed to the service, a response received from it
Request(kind, of, total, body) ==
  [ev |-> "request", kind |-> kind, of |-> of, total |-> total,
   body |-> body, ok |-> TRUE]
Response(kind, of, resp) ==
  [ev |-> "response", kind |-> kind, of |-> of, total |-> 0,
   body |-> << resp.content >>, ok |-> resp.ok]

\* ------------------------------------------------ analyzeLabReportEnhanced
\* the condition of the single-pass path taken with <= in place of <
UseSinglePass_Inclusive(t, pages) ==
  pages = 1 /\ StrLen(t) <= SinglePassThreshold

\* the condition of the single-pass path
UseSinglePass(t, pages) ==
  pages = 1 /\ StrLen(t) < SinglePassThreshold

\* entry: the groq guard, then the choice of path; the single-pass path
\* calls analyzeLabReportPdfFromBuffer, which sends its one request
Enter ==
  /\ pc = "Received"
  /\ IF ~groqReady
     THEN /\ pc' = "Failed"
          /\ outcome' = Thrown(Content("Groq client not initialized", 0))
          /\ UNCHANGED << inflight, log >>
     ELSE IF UseSinglePass(extractedText, pageCount)
     THEN /\ pc' = "SinglePass"
          /\ inflight' = { 0 }
          /\ log' = Append(log, Request("summary", 0, 1, << extractedText >>))
          /\ UNCHANGED outcome
     ELSE /\ pc' = "Chunking"
          /\ UNCHANGED << inflight, log, outcome >>
  /\ UNCHANGED << groqReady, extractedText, pageCount, chunks, i, chunkAnalyses >>
  /\ UNCHANGED chunkerVars
  /\ UNCHANGED appVars
  /\ UNCHANGED indexVars

\* the response to analyzeLabReportPdfFromBuffer's request
SinglePassDone ==
  /\ pc = "SinglePass"
  /\ 0 \in inflight
  /\ \E resp \in Responses("summary", 0) :
       /\ log' = Append(log, Response("summary", 0, resp))
       /\ IF resp.ok
          THEN /\ pc' = "Complete"
               /\ outcome' = Returned(OrElse(resp.content,
                                 Content("Unable to analyze report.", 0)))
          ELSE /\ pc' = "Failed"
               /\ outcome' = Thrown(resp.content)
  /\ inflight' = inflight \ { 0 }
  /\ UNCHANGED << groqReady, extractedText, pageCount, chunks, i, chunkAnalyses >>
  /\ UNCHANGED chunkerVars
  /\ UNCHANGED appVars
  /\ UNCHANGED indexVars

\* the per-chunk loop started at the second chunk
SplitIntoChunks_SkipFirst ==
  /\ pc = "Chunking"
  /\ chunks' = chunkText(extractedText, DefaultChunkSize)
  /\ i' = 1
  /\ chunkAnalyses' = << >>
  /\ pc' = "PerChunkAnalysis"
  /\ UNCHANGED << groqReady, extractedText, pageCount, inflight, log, outcome >>
  /\ UNCHANGED chunkerVars
  /\ UNCHANGED appVars
  /\ UNCHANGED indexVars

\* const chunks = chunkText(extractedText, 6000)
SplitIntoChunks ==
  /\ pc = "Chunking"
  /\ chunks' = chunkText(extractedText, DefaultChunkSize)
  /\ i' = 0
  /\ chunkAnalyses' = << >>
  /\ pc' = "PerChunkAnalysis"
  /\ UNCHANGED << groqReady, extractedText, pageCount, inflight, log, outcome >>
  /\ UNCHANGED chunkerVars
  /\ UNCHANGED appVars
  /\ UNCHANGED indexVars

\* requests for all the chunks sent without awaiting the responses
AnalyzeChunk_Parallel ==
  /\ pc = "PerChunkAnalysis"
  /\ \E k \in 1..Len(chunks) :
       /\ \A e \in 1..Len(log) : ~(log[e].ev = "request" /\ log[e].of = k)
       /\ inflight' = inflight \cup { k }
       /\ log' = Append(log, Request("extraction", k, Len(chunks), << chunks[k] >>))
  /\ UNCHANGED << groqReady, extractedText, pageCount, pc, chunks, i,
                  chunkAnalyses, outcome >>
  /\ UNCHANGED chunkerVars
  /\ UNCHANGED appVars
  /\ UNCHANGED indexVars

\* analyzeReportChunk(chunks[i], i + 1, chunks.length, fileName) sends its
\* request; the caller awaits it, so nothing else is outstanding
AnalyzeChunk ==
  /\ pc = "PerChunkAnalysis"
  /\ inflight = {}
  /\ i < Len(chunks)
  /\ inflight' = { i + 1 }
  /\ log' = Append(log, Request("extraction", i + 1, Len(chunks), << chunks[i + 1] >>))
  /\ UNCHANGED << groqReady, extractedText, pageCount, pc, chunks, i,
                  chunkAnalyses, outcome >>
  /\ UNCHANGED chunkerVars
  /\ UNCHANGED appVars
  /\ UNCHANGED indexVars

\* a failed per-chunk request caught: the chunk is dropped and the loop goes on
AnalyzeChunkDone_Caught ==
  /\ pc = "PerChunkAnalysis"
  /\ \E k \in inflight : \E resp \in Responses("extraction", k) :
       /\ log' = Append(log, Response("extraction", k, resp))
       /\ inflight' = inflight \ { k }
       /\ IF resp.ok /\ Len(chunks) = 1
          THEN /\ pc' = "Complete"
               /\ outcome' = Returned(OrElse(resp.content, NoContent))
               /\ UNCHANGED << i, chunkAnalyses >>
          ELSE /\ chunkAnalyses' = IF resp.ok
                                   THEN Append(chunkAnalyses, OrElse(resp.content, NoContent))
                                   ELSE chunkAnalyses
               /\ i' = i + 1
               /\ UNCHANGED << pc, outcome >>
  /\ UNCHANGED << groqReady, extractedText, pageCount, chunks >>
  /\ UNCHANGED chunkerVars
  /\ UNCHANGED appVars
  /\ UNCHANGED indexVars

\* the response to analyzeReportChunk's request: a rejection propagates out of
\* analyzeLabReportEnhanced (no try/catch); a single chunk's analysis is
\* returned as it is; otherwise the analysis is pushed and the loop goes on
AnalyzeChunkDone ==
  /\ pc = "PerChunkAnalysis"
  /\ \E k \in inflight : \E resp \in Responses("extraction", k) :
       /\ log' = Append(log, Response("extraction", k, resp))
       /\ inflight' = inflight \ { k }
       /\ IF ~resp.ok
          THEN /\ pc' = "Failed"
               /\ outcome' = Thrown(resp.content)
               /\ UNCHANGED << i, chunkAnalyses >>
          ELSE IF Len(chunks) = 1
          THEN /\ pc' = "Complete"
               /\ outcome' = Returned(OrElse(resp.content, NoContent))
               /\ UNCHANGED << i, chunkAnalyses >>
          ELSE /\ chunkAnalyses' = Append(chunkAnalyses, OrElse(resp.content, NoContent))
               /\ i' = i + 1
               /\ UNCHANGED << pc, outcome >>
  /\ UNCHANGED << groqReady, extractedText, pageCount, chunks >>
  /\ UNCHANGED chunkerVars
  /\ UNCHANGED appVars
  /\ UNCHANGED indexVars

\* synthesizeAnalyses(chunkAnalyses, fileName) builds combinedAnalysis (one
\* numbered section per analysis, in array order) and sends its request
Synthesize ==
  /\ pc = "PerChunkAnalysis"
  /\ Len(chunks) > 1
  /\ i >= Len(chunks)
  /\ inflight = {}
  /\ pc' = "Synthesis"
  /\ inflight' = { 0 }
  /\ log' = Append(log, Request("synthesis", 0, Len(chunkAnalyses), chunkAnalyses))
  /\ UNCHANGED << groqReady, extractedText, pageCount, chunks, i,
                  chunkAnalyses, outcome >>
  /\ UNCHANGED chunkerVars
  /\ UNCHANGED appVars
  /\ UNCHANGED indexVars

\* the response to synthesizeAnalyses' request
SynthesizeDone ==
  /\ pc = "Synthesis"
  /\ 0 \in inflight
  /\ \E resp \in Responses("synthesis", 0) :
       /\ log' = Append(log, Response("synthesis", 0, resp))
       /\ IF resp.ok
          THEN /\ pc' = "Complete"
               /\ outcome' = Returned(OrElse(resp.content,
                                 Content("Analysis unavailable", 0)))
          ELSE /\ pc' = "Failed"
               /\ outcome' = Thrown(resp.content)
  /\ inflight' = inflight \ { 0 }
  /\ UNCHANGED << groqReady, extractedText, pageCount, chunks, i, chunkAnalyses >>
  /\ UNCHANGED chunkerVars
  /\ UNCHANGED appVars
  /\ UNCHANGED indexVars

\* ---------------------------------------------- orchestrator specification
\* document run lengths placed around the threshold and the chunk size
OrchRuns ==
  { Run("a", k) : k \in { 3001, SinglePassThreshold - 1, SinglePassThreshold } }
    \cup { Run(NL, k) : k \in 1..2 }
    \cup { Run("=", 4) }

OrchTexts == { t \in TextsUpTo(OrchRuns, MaxOrchRuns) : Canonical(t) }

PageCounts == 1..MaxPages

OrchInit ==
  /\ text = EmptyStr
  /\ maxChunkSize = DefaultChunkSize
  /\ returned = << >>
  /\ groqReady \in BOOLEAN
  /\ extractedText \in OrchTexts
  /\ pageCount \in PageCounts
  /\ pc = "Received"
  /\ chunks = << >>
  /\ i = 0
  /\ chunkAnalyses = << >>
  /\ inflight = {}
  /\ log = << >>
  /\ outcome = Pending
  /\ IndexIdle
  /\ AppIdle

OrchNext ==
  \/ Enter
  \/ SinglePassDone
  \/ SplitIntoChunks
  \/ AnalyzeChunk
  \/ AnalyzeChunkDone
  \/ Synthesize
  \/ SynthesizeDone

OrchSpec == OrchInit /\ [][OrchNext]_vars

\* ------------------------------------------- vectorStore.ts: the indexer
\* bounds of the index specification
MaxTasks == 2

\* chunkSize and chunkOverlap of the text splitter
ChunkSize == 1000
ChunkOverlap == 200

\* topK when searchReportContext is called without it
DefaultTopK == 3

\* numChunks of chatWithLabReportRAG
FocusedChunks == 4
BroadChunks == 6

\* the words that make chatWithLabReportRAG ask for more chunks
BroadWords == {"summary", "overall", "liver", "all"}

Tasks == 1..MaxTasks

\* the embedding vectors the embedding service answers with: unit vectors
\* along different axes, named by their axis
Vecs == {1, 2}

\* cosine similarity of two of these vectors
Similarity(q, v) == IF q = v THEN 1 ELSE 0

\* the vector the embedding service gives the window at position x of a
\* text: neighbouring windows differ, every other window ties
Embedding(x) == (x % 2) + 1

\* the stored text of each report: r1 has a version of five windows and one
\* of two paragraphs, r2 is one paragraph
LongReport == << Run("a", 4000) >>
ShortReport == << Run("a", 900), Run(NL, 2), Run("a", 900) >>
ReportTexts(r) ==
  IF r = "r1" THEN {LongReport, ShortReport} ELSE {<< Run("a", 900) >>}

\* the arguments of the calls: report and text of an indexing; report, text
\* (EmptyStr for none) and presence of metadata of a search; report, text and
\* question of a chat
IndexArgs == UNION {{<< r, c >> : c \in ReportTexts(r)} : r \in ReportIds}
SearchArgs ==
  {<< r, EmptyStr, FALSE >> : r \in ReportIds} \cup {<< "r1", ShortReport, TRUE >>}

\* the questions of a chat, as the set of the broad words they contain
Questions == {{}, {"liver"}}

ChatArgs == {<< "r1", c, q >> : c \in ReportTexts("r1"), q \in Questions}

\* the thrown error a caller of operation op sees: chatWithLabReportRAG wraps
\* what it catches, the others pass it on
ErrorOf(op, message) ==
  IF op = "chat" THEN << "Failed to process chat", message >> ELSE << message >>

\* const documents = chunks.map(...)
Documents(content) ==
  LET windows == SplitText(content, ChunkSize, ChunkOverlap) IN
    [x \in 1..Len(windows) |->
       [pageContent |-> windows[x], chunkIndex |-> x - 1,
        totalChunks |-> Len(windows), embedding |-> 0]]

\* indexReportForChat up to the embedding request inside
\* MemoryVectorStore.fromDocuments; getEmbeddings throws without the API key
BeginIndexing(task) ==
  IF geminiKey
  THEN [task EXCEPT !.pc = "Embedding",
                    !.documents = Documents(task.reportContent),
                    !.embedCalls = @ + 1]
  ELSE [task EXCEPT !.pc = "Failed",
                    !.error = ErrorOf(task.op, "Failed to index report")]

\* vectorStore.similaritySearch is called: its query embedding is requested
BeginSearch(task, store) ==
  [task EXCEPT !.pc = "Querying", !.vectorStore = store, !.searchCalls = @ + 1]

\* getReportVectorStore never indexes on demand: without a cached index it
\* returns null
GetReportVectorStore_NoFallback(task) ==
  LET cached == vectorStoreCache[task.reportId]
      looked == [task EXCEPT !.found = cached]
  IN IF cached # NoStore THEN BeginSearch(looked, cached)
     ELSE [looked EXCEPT !.pc = "Failed",
             !.error = ErrorOf(task.op, "Vector store not found")]

\* getReportVectorStore gives an empty store instead of null when it can
\* build none
GetReportVectorStore_EmptyStore(task) ==
  LET cached == vectorStoreCache[task.reportId]
      looked == [task EXCEPT !.found = cached]
  IN IF cached # NoStore THEN BeginSearch(looked, cached)
     ELSE IF task.reportContent # EmptyStr /\ task.hasMetadata
          THEN BeginIndexing(looked)
          ELSE BeginSearch(looked, [NoStore EXCEPT !.reportId = task.reportId])

\* getReportVectorStore indexes whenever it is given text and metadata, and
\* looks in the cache only otherwise
GetReportVectorStore_Reindexing(task) ==
  LET cached == vectorStoreCache[task.reportId]
      looked == [task EXCEPT !.found = cached]
  IN IF task.reportContent # EmptyStr /\ task.hasMetadata
     THEN BeginIndexing(looked)
     ELSE IF cached # NoStore THEN BeginSearch(looked, cached)
     ELSE [looked EXCEPT !.pc = "Failed",
             !.error = ErrorOf(task.op, "Vector store not found")]

\* getReportVectorStore and what searchReportContext does with its result
GetReportVectorStore(task) ==
  LET cached == vectorStoreCache[task.reportId]
      looked == [task EXCEPT !.found = cached]
  IN IF cached # NoStore THEN BeginSearch(looked, cached)
     ELSE IF task.reportContent # EmptyStr /\ task.hasMetadata
          THEN BeginIndexing(looked)
          ELSE [looked EXCEPT !.pc = "Failed",
                  !.error = ErrorOf(task.op, "Vector store not found")]

\* no call has settled without its caller having resumed: the reaction to a
\* settled promise runs before the event loop takes the next event
Settled == \A t \in Tasks : tasks[t].pc \notin {"Done", "Failed"}

\* a call takes the first free slot
FreeSlot(t) ==
  /\ Settled
  /\ tasks[t].op = "idle"
  /\ \A u \in Tasks : u < t => tasks[u].op # "idle"

NewTask(op, r, content, meta, k) ==
  [IdleTask EXCEPT !.op = op, !.reportId = r,
                   !.reportContent = content, !.hasMetadata = meta, !.topK = k]

\* a call indexReportForChat(r, content, metadata)
CallIndexReportForChat(t, r, content) ==
  /\ FreeSlot(t)
  /\ tasks' = [tasks EXCEPT ![t] = BeginIndexing(NewTask("index", r, content, TRUE, 0))]
  /\ UNCHANGED << geminiKey, vectorStoreCache >>
  /\ UNCHANGED chunkerVars
  /\ UNCHANGED appVars
  /\ UNCHANGED orchVars

\* a call searchReportContext(r, query, content, metadata) with the default
\* topK; content is EmptyStr when the caller passes none
CallSearchReportContext(t, r, content, meta) ==
  /\ FreeSlot(t)
  /\ tasks' = [tasks EXCEPT ![t] =
                 GetReportVectorStore(NewTask("search", r, content, meta, DefaultTopK))]
  /\ UNCHANGED << geminiKey, vectorStoreCache >>
  /\ UNCHANGED chunkerVars
  /\ UNCHANGED appVars
  /\ UNCHANGED orchVars

\* numChunks is 4 whatever the question
NumChunks_Fixed(question) == FocusedChunks

\* const numChunks = ... ? 6 : 4
NumChunks(question) ==
  IF question \cap BroadWords # {} THEN BroadChunks ELSE FocusedChunks

\* a call chatWithLabReportRAG(r, content, question, metadata, ...)
CallChatWithLabReportRAG(t, r, content, question) ==
  /\ FreeSlot(t)
  /\ tasks' = [tasks EXCEPT ![t] =
                 GetReportVectorStore(
                   [NewTask("chat", r, content, TRUE, NumChunks(question))
                      EXCEPT !.question = question])]
  /\ UNCHANGED << geminiKey, vectorStoreCache >>
  /\ UNCHANGED chunkerVars
  /\ UNCHANGED appVars
  /\ UNCHANGED orchVars

\* the store was handed over when its first window had been embedded
BuildStore_FirstWindow(task) ==
  [reportId |-> task.reportId,
   from |-> task.reportContent,
   memoryVectors |->
     [x \in 1..(IF Len(task.documents) > 0 THEN 1 ELSE 0) |->
        [task.documents[x] EXCEPT !.embedding = Embedding(x)]]]

\* the store MemoryVectorStore.fromDocuments resolves with: every document
\* with its vector
BuildStore(task) ==
  [reportId |-> task.reportId,
   from |-> task.reportContent,
   memoryVectors |->
     [x \in 1..Len(task.documents) |->
        [task.documents[x] EXCEPT !.embedding = Embedding(x)]]]

\* the new vectors were added to the index already held for the report
CacheSet_Merged(cache, r, store) ==
  [cache EXCEPT ![r] =
     [store EXCEPT !.memoryVectors = cache[r].memoryVectors \o store.memoryVectors]]

\* vectorStoreCache.set(reportId, vectorStore)
CacheSet(cache, r, store) == [cache EXCEPT ![r] = store]

\* the index is stored only when the report has none yet: the first writer wins
EmbedResolve_KeepFirst(t) ==
  /\ Settled
  /\ tasks[t].pc = "Embedding"
  /\ LET store == BuildStore(tasks[t])
         done == [tasks[t] EXCEPT !.indexed = TRUE, !.vectorStore = store]
     IN /\ vectorStoreCache' =
             IF vectorStoreCache[tasks[t].reportId] = NoStore
             THEN CacheSet(vectorStoreCache, tasks[t].reportId, store)
             ELSE vectorStoreCache
        /\ tasks' = [tasks EXCEPT ![t] =
             IF tasks[t].op = "index" THEN [done EXCEPT !.pc = "Done"]
             ELSE BeginSearch(done, store)]
  /\ UNCHANGED geminiKey
  /\ UNCHANGED chunkerVars
  /\ UNCHANGED appVars
  /\ UNCHANGED orchVars

\* MemoryVectorStore.fromDocuments resolves; indexReportForChat resumes in the
\* same turn of the event loop: it stores the index and returns, and inside
\* searchReportContext the search follows
EmbedResolve(t) ==
  /\ Settled
  /\ tasks[t].pc = "Embedding"
  /\ LET store == BuildStore(tasks[t])
         done == [tasks[t] EXCEPT !.indexed = TRUE, !.vectorStore = store]
     IN /\ vectorStoreCache' = CacheSet(vectorStoreCache, tasks[t].reportId, store)
        /\ tasks' = [tasks EXCEPT ![t] =
             IF tasks[t].op = "index" THEN [done EXCEPT !.pc = "Done"]
             ELSE BeginSearch(done, store)]
  /\ UNCHANGED geminiKey
  /\ UNCHANGED chunkerVars
  /\ UNCHANGED appVars
  /\ UNCHANGED orchVars

\* the catch block of indexReportForChat stored what it had before throwing
EmbedReject_Publishing(t) ==
  /\ Settled
  /\ tasks[t].pc = "Embedding"
  /\ vectorStoreCache' =
       CacheSet(vectorStoreCache, tasks[t].reportId,
                [reportId |-> tasks[t].reportId, from |-> tasks[t].reportContent,
                 memoryVectors |-> << >>])
  /\ tasks' = [tasks EXCEPT ![t].pc = "Failed",
                 ![t].error = ErrorOf(tasks[t].op, "Failed to index report")]
  /\ UNCHANGED geminiKey
  /\ UNCHANGED chunkerVars
  /\ UNCHANGED appVars
  /\ UNCHANGED orchVars

\* MemoryVectorStore.fromDocuments rejects: the catch block of
\* indexReportForChat throws
EmbedReject(t) ==
  /\ Settled
  /\ tasks[t].pc = "Embedding"
  /\ tasks' = [tasks EXCEPT ![t].pc = "Failed",
                 ![t].error = ErrorOf(tasks[t].op, "Failed to index report")]
  /\ UNCHANGED << geminiKey, vectorStoreCache >>
  /\ UNCHANGED chunkerVars
  /\ UNCHANGED appVars
  /\ UNCHANGED orchVars

\* the comparator puts a vector before every vector it does not score below
Compare_NonStrict(q, a, b) ==
  IF Similarity(q, a.embedding) >= Similarity(q, b.embedding) THEN -1 ELSE 0

\* the comparator of the store's sort: (a, b) => a.similarity > b.similarity ? -1 : 0
Compare(q, a, b) ==
  IF Similarity(q, a.embedding) > Similarity(q, b.embedding) THEN -1 ELSE 0

\* one insertion of the sort: d goes before the first element it compares
\* below zero with
RECURSIVE InsertSorted(_, _, _)
InsertSorted(q, sorted, d) ==
  IF sorted = << >> THEN << d >>
  ELSE IF Compare(q, d, Head(sorted)) < 0 THEN << d >> \o sorted
  ELSE << Head(sorted) >> \o InsertSorted(q, Tail(sorted), d)

RECURSIVE SortBySimilarity(_, _, _)
SortBySimilarity(q, sorted, rest) ==
  IF rest = << >> THEN sorted
  ELSE SortBySimilarity(q, InsertSorted(q, sorted, Head(rest)), Tail(rest))

\* the sorted vectors are returned without slice(0, k)
SimilaritySearch_Unsliced(store, q, k) ==
  SortBySimilarity(q, << >>, store.memoryVectors)

\* similaritySearch(query, k): memoryVectors sorted, then slice(0, k)
SimilaritySearch(store, q, k) ==
  LET sorted == SortBySimilarity(q, << >>, store.memoryVectors)
  IN SubSeq(sorted, 1, IF k < Len(sorted) THEN k ELSE Len(sorted))

\* relevantDocs.map((doc) => doc.pageContent).join("\n\n")
RECURSIVE Context(_)
Context(docs) ==
  IF docs = << >> THEN EmptyStr
  ELSE IF Len(docs) = 1 THEN Head(docs).pageContent
  ELSE Cat(Cat(Head(docs).pageContent, << Run(NL, 2) >>), Context(Tail(docs)))

\* similaritySearch resolves with the query embedded as q; in a chat the
\* chunks become the context of the completion, which answers or fails
SearchResolve(t) ==
  /\ Settled
  /\ tasks[t].pc = "Querying"
  /\ \E q \in Vecs, ok \in BOOLEAN :
       /\ tasks[t].op # "chat" => ok
       /\ tasks' = [tasks EXCEPT ![t].query = q,
                      ![t].relevantDocs =
                        SimilaritySearch(tasks[t].vectorStore, q, tasks[t].topK),
                      ![t].context =
                        IF tasks[t].op = "chat"
                        THEN Context(SimilaritySearch(tasks[t].vectorStore, q,
                                                      tasks[t].topK))
                        ELSE EmptyStr,
                      ![t].pc = IF ok THEN "Done" ELSE "Failed",
                      ![t].error = IF ok THEN << >>
                                   ELSE ErrorOf("chat", "completion failed")]
  /\ UNCHANGED << geminiKey, vectorStoreCache >>
  /\ UNCHANGED chunkerVars
  /\ UNCHANGED appVars
  /\ UNCHANGED orchVars

\* similaritySearch rejects: the catch block rethrows
SearchReject(t) ==
  /\ Settled
  /\ tasks[t].pc = "Querying"
  /\ tasks' = [tasks EXCEPT ![t].pc = "Failed",
                 ![t].error = ErrorOf(tasks[t].op, "similarity search failed")]
  /\ UNCHANGED << geminiKey, vectorStoreCache >>
  /\ UNCHANGED chunkerVars
  /\ UNCHANGED appVars
  /\ UNCHANGED orchVars

\* the caller has the result or the error: the slot is free again
Return(t) ==
  /\ tasks[t].pc \in {"Done", "Failed"}
  /\ tasks' = [tasks EXCEPT ![t] = IdleTask]
  /\ UNCHANGED << geminiKey, vectorStoreCache >>
  /\ UNCHANGED chunkerVars
  /\ UNCHANGED appVars
  /\ UNCHANGED orchVars

\* clearReportVectorStore(r)
ClearReportVectorStore(r) ==
  /\ Settled
  /\ vectorStoreCache[r] # NoStore
  /\ vectorStoreCache' = [vectorStoreCache EXCEPT ![r] = NoStore]
  /\ UNCHANGED << geminiKey, tasks >>
  /\ UNCHANGED chunkerVars
  /\ UNCHANGED appVars
  /\ UNCHANGED orchVars

\* clearAllVectorStores()
ClearAllVectorStores ==
  /\ Settled
  /\ \A r \in ReportIds : vectorStoreCache[r] # NoStore
  /\ vectorStoreCache' = [r \in ReportIds |-> NoStore]
  /\ UNCHANGED << geminiKey, tasks >>
  /\ UNCHANGED chunkerVars
  /\ UNCHANGED appVars
  /\ UNCHANGED orchVars

\* ------------------------------------------------- index specification
IndexInit ==
  /\ text = EmptyStr
  /\ maxChunkSize = DefaultChunkSize
  /\ returned = << >>
  /\ OrchIdle
  /\ geminiKey \in BOOLEAN
  /\ vectorStoreCache = [r \in ReportIds |-> NoStore]
  /\ tasks = [t \in Tasks |-> IdleTask]
  /\ AppIdle

IndexNext ==
  \/ \E t \in Tasks, a \in IndexArgs : CallIndexReportForChat(t, a[1], a[2])
  \/ \E t \in Tasks, a \in SearchArgs : CallSearchReportContext(t, a[1], a[2], a[3])
  \/ \E t \in Tasks, a \in ChatArgs : CallChatWithLabReportRAG(t, a[1], a[2], a[3])
  \/ \E t \in Tasks : EmbedResolve(t)
  \/ \E t \in Tasks : EmbedReject(t)
  \/ \E t \in Tasks : SearchResolve(t)
  \/ \E t \in Tasks : SearchReject(t)
  \/ \E t \in Tasks : Return(t)
  \/ \E r \in ReportIds : ClearReportVectorStore(r)
  \/ ClearAllVectorStores

IndexSpec == IndexInit /\ [][IndexNext]_vars

\* ------------------------------------------------------ chunker properties
\* the string with its whitespace characters removed
RECURSIVE StripSpace(_)
StripSpace(s) ==
  IF s = << >> THEN s
  ELSE IF IsSpace(Head(s).ch) THEN StripSpace(Tail(s))
  ELSE Cat(<< Head(s) >>, StripSpace(Tail(s)))

\* the strings of a sequence concatenated in order
RECURSIVE JoinAll(_)
JoinAll(ss) == IF ss = << >> THEN EmptyStr ELSE Cat(Head(ss), JoinAll(Tail(ss)))

ChunkTextReturned == returned # << >>

\* T has no blank-line-delimited paragraph longer than S
NoLongParagraph(t, S) ==
  \A k \in 1..Len(SplitParagraphs(t)) : StrLen(SplitParagraphs(t)[k]) <= S

AllChunksWithin(cs, S) == \A k \in 1..Len(cs) : StrLen(cs[k]) <= S

\* C1: a text no longer than the maximum size comes back as exactly one
\* chunk, equal to the text unchanged.
C1_ShortTextIsOneChunk ==
  (ChunkTextReturned /\ StrLen(text) <= maxChunkSize) => returned = << text >>

\* a text of exactly the maximum size, with whitespace at its ends, came back whole
C1_Witness ==
  /\ ChunkTextReturned
  /\ StrLen(text) = maxChunkSize
  /\ Trim(text) # text
  /\ returned = << text >>

\* C2 as stated: the chunks concatenated in order reproduce the text, whitespace
\* aside: no content is lost, duplicated or reordered.
C2_Original_ConcatReproducesText ==
  ChunkTextReturned => StripSpace(JoinAll(returned)) = StripSpace(text)

\* C2 amended: the chunks concatenated in order reproduce, whitespace aside,
\* the text with its page-separator markers removed; when the whole text is
\* returned as the single chunk nothing is removed.
C2_ConcatReproducesSections ==
  ChunkTextReturned =>
    \/ returned = << text >>
    \/ StripSpace(JoinAll(returned)) = StripSpace(JoinAll(SplitSections(text)))

\* a text with a page marker was split into several chunks
C2_Witness ==
  /\ ChunkTextReturned
  /\ Len(returned) >= 2
  /\ Len(SplitSections(text)) >= 2
  /\ StripSpace(JoinAll(returned)) # StripSpace(text)

\* C3 as stated: a text with a paragraph longer than the maximum size is cut
\* by length, so no returned chunk exceeds the maximum size.
C3_LongParagraphIsCut ==
  (ChunkTextReturned /\ ~NoLongParagraph(text, maxChunkSize))
    => AllChunksWithin(returned, maxChunkSize)

\* C4 as stated: without a paragraph longer than the maximum size, every
\* returned chunk is within the maximum size.
C4_Original_ChunksWithinSize ==
  (ChunkTextReturned /\ NoLongParagraph(text, maxChunkSize))
    => AllChunksWithin(returned, maxChunkSize)

\* C4 amended: without a paragraph longer than the maximum size, every
\* returned chunk is within the maximum size, unless the text holds nothing
\* but page markers and whitespace and comes back whole as the single chunk.
C4_ChunksWithinSizeOrWhole ==
  (ChunkTextReturned /\ NoLongParagraph(text, maxChunkSize))
    => \/ AllChunksWithin(returned, maxChunkSize)
       \/ /\ returned = << text >>
          /\ StripSpace(JoinAll(SplitSections(text))) = EmptyStr

\* paragraphs that fit were packed: a chunk of exactly the maximum size was
\* emitted from a longer text and another chunk followed it
C4_Witness ==
  /\ ChunkTextReturned
  /\ NoLongParagraph(text, maxChunkSize)
  /\ Len(returned) >= 2
  /\ StrLen(returned[1]) = maxChunkSize


\* ------------------------------------------------- orchestrator properties
LogIndexes(ev, kind) ==
  { e \in 1..Len(log) : log[e].ev = ev /\ log[e].kind = kind }

NumRequests(kind) == Cardinality(LogIndexes("request", kind))

CeilDiv(a, b) == (a + b - 1) \div b

MultiStageDocument == ~UseSinglePass(extractedText, pageCount)

\* C5 as stated, for a text longer than the chunk size whose paragraphs
\* all fit in a chunk: a completed
\* multi-stage analysis issued ceil(text-length / chunk-size) per-chunk calls
\* and exactly one synthesis call.
C5_Original_CeilingCalls ==
  (pc = "Complete" /\ MultiStageDocument
     /\ StrLen(extractedText) > DefaultChunkSize
     /\ NoLongParagraph(extractedText, DefaultChunkSize))
    => /\ NumRequests("extraction")
            = CeilDiv(StrLen(extractedText), DefaultChunkSize)
       /\ NumRequests("synthesis") = 1

\* C5 amended: a multi-stage analysis issues one per-chunk call per chunk that
\* chunkText returned, stopping at the first call that fails; when it
\* completes it has issued one call per chunk and then exactly one synthesis
\* call if there are two or more chunks, none if there is one chunk.
C5_OneCallPerChunk ==
  (groqReady /\ MultiStageDocument /\ pc \in { "Complete", "Failed" })
    => /\ chunks = chunkText(extractedText, DefaultChunkSize)
       /\ NumRequests("extraction") <= Len(chunks)
       /\ NumRequests("synthesis") <= 1
       /\ NumRequests("synthesis") = 1 => NumRequests("extraction") = Len(chunks)
       /\ pc = "Complete" =>
            /\ NumRequests("extraction") = Len(chunks)
            /\ NumRequests("synthesis") = (IF Len(chunks) > 1 THEN 1 ELSE 0)

\* a completed analysis whose number of per-chunk calls is not the ceiling
C5_Witness ==
  /\ pc = "Complete"
  /\ MultiStageDocument
  /\ Len(chunks) >= 2
  /\ NumRequests("extraction") = Len(chunks)
  /\ NumRequests("extraction") # CeilDiv(StrLen(extractedText), DefaultChunkSize)
  /\ NumRequests("synthesis") = 1

ExtractionFailed ==
  \E e \in LogIndexes("response", "extraction") : ~log[e].ok

ExtractionSucceeded ==
  \E e \in LogIndexes("response", "extraction") : log[e].ok

\* C6 as stated: when one chunk's call fails and another chunk's call
\* succeeds, the failure is caught and the error is not propagated.
C6_PartialFailureIsCaught ==
  (ExtractionFailed /\ ExtractionSucceeded) => outcome.status # "thrown"

\* C7: when every per-chunk call that was made has failed, the caller gets an
\* error and no synthesis call was issued.
C7_AllChunksFailed ==
  (ExtractionFailed /\ ~ExtractionSucceeded /\ inflight = {})
    => /\ pc = "Failed"
       /\ outcome.status = "thrown"
       /\ NumRequests("synthesis") = 0

\* the first call of a document of several chunks failed
C7_Witness ==
  /\ Len(chunks) >= 2
  /\ ExtractionFailed
  /\ ~ExtractionSucceeded
  /\ pc = "Failed"
  /\ NumRequests("synthesis") = 0

\* C8: once past its entry with a client, the function is on the single-pass
\* path (the whole text in its one summarization request, no chunking, no
\* per-chunk or synthesis request) exactly when the page count is 1 and the
\* text is shorter than 5000 characters; otherwise it is on the multi-stage
\* path (chunking, no summarization request).
C8_PathChoice ==
  (groqReady /\ pc # "Received") =>
    IF pageCount = 1 /\ StrLen(extractedText) < SinglePassThreshold
    THEN /\ NumRequests("summary") = 1
         /\ log[1] = Request("summary", 0, 1, << extractedText >>)
         /\ chunks = << >>
         /\ NumRequests("extraction") = 0
         /\ NumRequests("synthesis") = 0
    ELSE /\ NumRequests("summary") = 0
         /\ pc = "Chunking" \/ chunks # << >>

\* a one-page document of 4999 characters completed on the single-pass path
C8_Witness ==
  /\ pc = "Complete"
  /\ pageCount = 1
  /\ StrLen(extractedText) = SinglePassThreshold - 1
  /\ NumRequests("summary") = 1

\* C9 as stated, in the case it singles out (a multi-stage document, a
\* client, at least one chunk analysed): the function fails only from
\* Chunking on empty input or from Synthesis fed with no successful chunk
\* result, and not from PerChunkAnalysis.
C9_FailedOnlyFromChunkingOrSynthesis ==
  [][ (groqReady /\ MultiStageDocument /\ ExtractionSucceeded
         /\ pc # "Failed" /\ pc' = "Failed")
        => \/ pc = "Chunking" /\ extractedText = EmptyStr
           \/ pc = "Synthesis" /\ chunkAnalyses = << >> ]_vars

\* the response to the per-chunk request of chunk k, as pushed by the loop
AnalysisOf(k) ==
  LET e == CHOOSE x \in LogIndexes("response", "extraction") : log[x].of = k
  IN OrElse(log[e].body[1], NoContent)

\* C10: at most one request is outstanding; per-chunk requests are issued in
\* ascending chunk order, each after the response to the one before it; the
\* synthesis request comes after the responses to all per-chunk requests and
\* carries their results in chunk order.
C10_SequentialInOrder ==
  /\ Cardinality(inflight) <= 1
  /\ \A e \in LogIndexes("request", "extraction") :
       /\ log[e].of = Cardinality({ x \in LogIndexes("request", "extraction") : x <= e })
       /\ log[e].body = << chunks[log[e].of] >>
       /\ log[e].of > 1 =>
            \E x \in LogIndexes("response", "extraction") :
              x < e /\ log[x].of = log[e].of - 1
  /\ \A e \in LogIndexes("request", "synthesis") :
       /\ \A k \in 1..Len(chunks) :
            \E x \in LogIndexes("response", "extraction") : x < e /\ log[x].of = k
       /\ log[e].body = [k \in 1..Len(chunks) |-> AnalysisOf(k)]

\* a synthesis request was sent for three chunks whose analyses differ
C10_Witness ==
  /\ Len(chunks) >= 3
  /\ NumRequests("synthesis") = 1
  /\ AnalysisOf(1) # AnalysisOf(2)
  /\ AnalysisOf(2) # AnalysisOf(3)

\* ------------------------------------------------------ index properties
\* the message of the error a failed call threw, without the chat wrapping
Cause(task) == IF task.error = << >> THEN "" ELSE task.error[Len(task.error)]

Retrieval(task) == task.op \in {"search", "chat"}

\* C11: when the embedding request of an indexing fails, the call ends with
\* the error "Failed to index report", it has stored no index, and the step
\* leaves vectorStoreCache exactly as it was; the same holds when the indexing
\* fails before the request because the API key is missing.
C11_EmbeddingFailureAborts ==
  [][\A t \in Tasks :
       /\ (tasks[t].pc = "Embedding" /\ tasks'[t].pc = "Failed")
            => Cause(tasks'[t]) = "Failed to index report"
       /\ (tasks[t].pc # "Failed" /\ tasks'[t].pc = "Failed"
             /\ Cause(tasks'[t]) = "Failed to index report")
            => /\ vectorStoreCache' = vectorStoreCache
               /\ ~tasks'[t].indexed
               /\ tasks'[t].vectorStore = NoStore]_vars

\* a re-indexing has failed after its embedding request, and the index of the
\* report from before the call is still there
C11_Witness ==
  \E t \in Tasks :
    /\ tasks[t].op = "index"
    /\ tasks[t].pc = "Failed"
    /\ tasks[t].embedCalls = 1
    /\ vectorStoreCache[tasks[t].reportId] # NoStore
    /\ vectorStoreCache[tasks[t].reportId].from # tasks[t].reportContent

\* the records an index built from content alone holds: one per window of the
\* splitter, in order
BuiltOnlyFrom(store, content) ==
  LET windows == SplitText(content, ChunkSize, ChunkOverlap) IN
    /\ store.from = content
    /\ Len(store.memoryVectors) = Len(windows)
    /\ \A x \in 1..Len(windows) : store.memoryVectors[x].pageContent = windows[x]

\* C12: when an indexing of report d succeeds, vectorStoreCache holds for d
\* the index built from the text of that call and from nothing else, whatever
\* it held for d before, and the entries of all other reports are unchanged.
C12_ReindexReplaces ==
  [][\A t \in Tasks :
       (tasks[t].pc = "Embedding" /\ tasks'[t].indexed)
         => /\ BuiltOnlyFrom(vectorStoreCache'[tasks[t].reportId],
                             tasks[t].reportContent)
            /\ vectorStoreCache'[tasks[t].reportId] = tasks'[t].vectorStore
            /\ \A r \in ReportIds \ {tasks[t].reportId} :
                 vectorStoreCache'[r] = vectorStoreCache[r]]_vars

\* r1 has been indexed again from its short text while a search still holds
\* the index built from its long text, and r2 has an index too
C12_Witness ==
  \E t, u \in Tasks :
    /\ tasks[t].op = "index" /\ tasks[t].pc = "Done"
    /\ tasks[t].reportId = "r1" /\ tasks[t].reportContent = ShortReport
    /\ vectorStoreCache["r1"].from = ShortReport
    /\ tasks[u].pc = "Querying" /\ tasks[u].reportId = "r1"
    /\ tasks[u].vectorStore.from = LongReport
    /\ vectorStoreCache["r2"] # NoStore

\* an index with one embedded record per window of its text, numbered from 0
\* and each knowing the number of windows
FullyPopulated(store) ==
  LET n == Len(SplitText(store.from, ChunkSize, ChunkOverlap)) IN
    /\ Len(store.memoryVectors) = n
    /\ \A x \in 1..n :
         /\ store.memoryVectors[x].chunkIndex = x - 1
         /\ store.memoryVectors[x].totalChunks = n
         /\ store.memoryVectors[x].embedding \in Vecs

\* C13: every index held in vectorStoreCache is fully populated: one record
\* per window of its text, chunkIndex running from 0 to n - 1, totalChunks = n
\* on every record, and every record embedded.
C13_IndexFullyPopulated ==
  \A r \in ReportIds :
    vectorStoreCache[r] # NoStore => FullyPopulated(vectorStoreCache[r])

\* the five-window text of r1 is indexed
C13_Witness ==
  /\ vectorStoreCache["r1"].from = LongReport
  /\ Len(vectorStoreCache["r1"].memoryVectors) = 5
  /\ \E t \in Tasks : tasks[t].pc = "Embedding" /\ tasks[t].reportId = "r1"

\* the index a retrieval searches, once it has one
Searching(task) == Retrieval(task) /\ task.searchCalls > 0

\* C14: a retrieval searches one complete index of its report, the one held
\* when it looked or the one it built, even when the report is indexed again
\* meanwhile; and vectorStoreCache changes for a report only when an indexing
\* of that report completes, which stores its own index over whatever is
\* there (the last to complete wins), or when the entry is cleared.
C14_CompleteIndexLastWriterWins ==
  [][/\ \A u \in Tasks :
          Searching(tasks'[u])
            => /\ FullyPopulated(tasks'[u].vectorStore)
               /\ tasks'[u].vectorStore.reportId = tasks'[u].reportId
               /\ Searching(tasks[u]) => tasks'[u].vectorStore = tasks[u].vectorStore
     /\ \A t \in Tasks :
          (tasks[t].pc = "Embedding" /\ tasks'[t].indexed)
            => vectorStoreCache'[tasks[t].reportId] = BuildStore(tasks[t])
     /\ \A r \in ReportIds :
          vectorStoreCache'[r] # vectorStoreCache[r]
            => \/ vectorStoreCache'[r] = NoStore
               \/ \E t \in Tasks :
                    /\ tasks[t].pc = "Embedding" /\ tasks'[t].indexed
                    /\ tasks[t].reportId = r]_vars

\* a search of r1 has returned chunks of the index built from the long text
\* while r1 was indexed again from the short text
C14_Witness ==
  \E u \in Tasks :
    /\ Retrieval(tasks[u]) /\ tasks[u].pc = "Done"
    /\ tasks[u].reportId = "r1"
    /\ tasks[u].vectorStore.from = LongReport
    /\ Len(tasks[u].relevantDocs) > 0
    /\ vectorStoreCache["r1"].from = ShortReport

\* a retrieval that found no index for its report and was given text and
\* metadata
MissWithFallback(task) ==
  /\ Retrieval(task)
  /\ task.found = NoStore
  /\ task.reportContent # EmptyStr
  /\ task.hasMetadata

\* C15: a retrieval that finds no index for its report and has text and
\* metadata starts by indexing that text (unless the API key is missing); it
\* requests a similarity search only once, in the step in which the index
\* built from that text is stored in vectorStoreCache, and on that index.
C15_IndexesBeforeSearching ==
  [][\A t \in Tasks :
       MissWithFallback(tasks'[t])
         => /\ tasks[t].op = "idle"
                 => \/ tasks'[t].pc = "Embedding" /\ tasks'[t].searchCalls = 0
                    \/ ~geminiKey /\ Cause(tasks'[t]) = "Failed to index report"
            /\ tasks'[t].searchCalls > 0
                 => /\ tasks'[t].indexed
                    /\ tasks'[t].embedCalls = 1
                    /\ BuiltOnlyFrom(tasks'[t].vectorStore, tasks'[t].reportContent)
            /\ (tasks[t].searchCalls = 0 /\ tasks'[t].searchCalls = 1)
                 => vectorStoreCache'[tasks[t].reportId] = tasks'[t].vectorStore]_vars

\* a chat about r1, which had no index, has built it and got its chunks
C15_Witness ==
  \E t \in Tasks :
    /\ MissWithFallback(tasks[t])
    /\ tasks[t].pc = "Done"
    /\ tasks[t].indexed
    /\ Len(tasks[t].relevantDocs) > 0
    /\ vectorStoreCache[tasks[t].reportId] = tasks[t].vectorStore

\* C16: a retrieval called when vectorStoreCache has no index for its report,
\* without text or without metadata, fails at once with the error "Vector
\* store not found", having requested neither an embedding nor a similarity
\* search, and vectorStoreCache stays as it was.
C16_NoIndexNoFallbackFails ==
  [][\A t \in Tasks :
       (/\ tasks[t].op = "idle"
        /\ Retrieval(tasks'[t])
        /\ vectorStoreCache[tasks'[t].reportId] = NoStore
        /\ (tasks'[t].reportContent = EmptyStr \/ ~tasks'[t].hasMetadata))
         => /\ tasks'[t].pc = "Failed"
            /\ Cause(tasks'[t]) = "Vector store not found"
            /\ tasks'[t].embedCalls = 0
            /\ tasks'[t].searchCalls = 0
            /\ tasks'[t].relevantDocs = << >>
            /\ vectorStoreCache' = vectorStoreCache]_vars

\* a search of r1 without text has failed while r1 has no index and r2 has one
C16_Witness ==
  \E t \in Tasks :
    /\ tasks[t].op = "search" /\ tasks[t].pc = "Failed"
    /\ tasks[t].reportId = "r1"
    /\ tasks[t].reportContent = EmptyStr
    /\ Cause(tasks[t]) = "Vector store not found"
    /\ vectorStoreCache["r1"] = NoStore
    /\ vectorStoreCache["r2"] # NoStore

\* a retrieval whose similarity search has answered
Answered(task) == Retrieval(task) /\ task.query \in Vecs

\* C17: a retrieval returns the smaller of the requested number K and the
\* number of windows in the index it searched: never more than K, and fewer
\* than K only when the index has fewer than K windows.
C17_ResultCount ==
  \A t \in Tasks :
    Answered(tasks[t])
      => LET n == Len(tasks[t].vectorStore.memoryVectors)
             k == tasks[t].topK
         IN /\ Len(tasks[t].relevantDocs) <= k
            /\ Len(tasks[t].relevantDocs) = IF n < k THEN n ELSE k

\* K = 4 on the two-window index of r1 has returned 2 results
C17_Witness ==
  \E t \in Tasks :
    /\ Answered(tasks[t]) /\ tasks[t].pc = "Done"
    /\ tasks[t].topK = 4
    /\ Len(tasks[t].vectorStore.memoryVectors) = 2
    /\ Len(tasks[t].relevantDocs) = 2

\* C18: a retrieval called while vectorStoreCache holds an index for its
\* report searches that very index and never asks for document embeddings nor
\* stores an index, whatever text it was given; and vectorStoreCache holds for
\* each report identifier at most one index, which is an index of that report.
C18_CachedIndexIsReused ==
  [][/\ \A t \in Tasks :
          /\ (/\ tasks[t].op = "idle"
              /\ Retrieval(tasks'[t])
              /\ vectorStoreCache[tasks'[t].reportId] # NoStore)
               => /\ tasks'[t].pc = "Querying"
                  /\ tasks'[t].found = vectorStoreCache[tasks'[t].reportId]
                  /\ vectorStoreCache' = vectorStoreCache
          /\ (Retrieval(tasks'[t]) /\ tasks'[t].found # NoStore)
               => /\ tasks'[t].vectorStore = tasks'[t].found
                  /\ tasks'[t].embedCalls = 0
                  /\ ~tasks'[t].indexed
     /\ DOMAIN vectorStoreCache' = ReportIds
     /\ \A r \in ReportIds :
          vectorStoreCache'[r] # NoStore => vectorStoreCache'[r].reportId = r]_vars

\* a chat about r1 given the long text has answered from the cached index
\* built from the short text, without indexing
C18_Witness ==
  \E t \in Tasks :
    /\ tasks[t].op = "chat" /\ tasks[t].pc = "Done"
    /\ tasks[t].reportContent = LongReport
    /\ tasks[t].found.from = ShortReport
    /\ tasks[t].vectorStore = tasks[t].found
    /\ tasks[t].embedCalls = 0
    /\ Len(tasks[t].relevantDocs) = 2

\* the similarity to the query of the result at position x of a retrieval
ScoreAt(task, x) == Similarity(task.query, task.relevantDocs[x].embedding)

Records(store) == {store.memoryVectors[x] : x \in 1..Len(store.memoryVectors)}

\* docs are k most similar records of the store, or all when it has fewer
MostSimilar(docs, store, q, k) ==
  LET n == Len(store.memoryVectors)
      got == {docs[x] : x \in 1..Len(docs)}
  IN /\ Len(docs) = IF n < k THEN n ELSE k
     /\ Cardinality(got) = Len(docs)
     /\ got \subseteq Records(store)
     /\ \A e \in got, d \in Records(store) \ got :
          Similarity(q, e.embedding) >= Similarity(q, d.embedding)

\* the chunks of a context: its text cut at the blank lines between them
InjectedChunks(task) == SplitParagraphs(task.context)

C21_NeverEmpty ==
  /\ ~ChunkTextReturned => Len(chunkText(text, maxChunkSize)) >= 1
  /\ ChunkTextReturned =>
       /\ Len(returned) >= 1
       /\ (StrLen(text) > maxChunkSize /\ SplitOutput(text, maxChunkSize) = << >>)
            => returned = << text >>

\* a text longer than the maximum size whose sections are all empty came
\* back whole
C21_Witness ==
  /\ ChunkTextReturned
  /\ StrLen(text) > maxChunkSize
  /\ SplitOutput(text, maxChunkSize) = << >>
  /\ returned = << text >>

\* the pieces chunkText may put a chunk border between: a section no longer
\* than S is one piece, a longer section gives one piece per paragraph
RECURSIVE Units(_, _)
Units(sections, S) ==
  IF sections = << >> THEN << >>
  ELSE (IF StrLen(Head(sections)) > S THEN SplitParagraphs(Head(sections))
        ELSE << Head(sections) >>) \o Units(Tail(sections), S)

\* the pieces written one after the other, each followed by a blank line
RECURSIVE JoinUnits(_)
JoinUnits(units) ==
  IF units = << >> THEN EmptyStr
  ELSE Cat(Cat(Head(units), ParagraphBreak), JoinUnits(Tail(units)))

\* cs are the trimmed texts of consecutive groups of whole pieces; pieces
\* left over at the end hold only whitespace
RECURSIVE Groupable(_, _)
Groupable(units, cs) ==
  IF cs = << >> THEN Trim(JoinUnits(units)) = EmptyStr
  ELSE \E k \in 1..Len(units) :
         /\ Trim(JoinUnits(SubSeq(units, 1, k))) = Head(cs)
         /\ Groupable(SubSeq(units, k + 1, Len(units)), Tail(cs))

\* C22: for a text longer than S, chunk borders fall only between the pieces
\* given by the page markers, and inside a page only when the page is longer
\* than S, then at its blank lines: every page of length <= S lies whole in
\* one chunk.
C22_PagesBeforeParagraphs ==
  (ChunkTextReturned /\ StrLen(text) > maxChunkSize)
    => \/ Groupable(Units(SplitSections(text), maxChunkSize), returned)
       \/ returned = << text >>

\* a page of two paragraphs that fits in S came back as one chunk of its own,
\* next to another chunk
C22_Witness ==
  /\ ChunkTextReturned
  /\ StrLen(text) > maxChunkSize
  /\ Len(returned) >= 2
  /\ \E x \in 1..Len(SplitSections(text)) :
       /\ StrLen(SplitSections(text)[x]) <= maxChunkSize
       /\ Len(SplitParagraphs(SplitSections(text)[x])) = 2
       /\ \E y \in 1..Len(returned) : returned[y] = SplitSections(text)[x]

\* C27: for a text longer than the maximum chunk size, no chunk returned by
\* chunkText is empty or made of whitespace only.
C27_NoBlankChunk ==
  (ChunkTextReturned /\ StrLen(text) > maxChunkSize)
    => \A k \in 1..Len(returned) : Trim(returned[k]) # EmptyStr

\* ------------------------------------------------------------------------
\* further index properties

\* C25: at most one embedding pass is in progress per report identifier at
\* any time, whether started by indexReportForChat or by a retrieval that
\* missed the cache.
C25_OneIndexingPerReport ==
  \A t, u \in Tasks :
    (t # u /\ tasks[t].pc = "Embedding" /\ tasks[u].pc = "Embedding")
      => tasks[t].reportId # tasks[u].reportId

\* ------------------------------------------------------------------------
\* the routes: app/api/lab/upload, app/api/lab/chat and the health-goals
\* route, over the tables lab_reports and health_goals

\* the request slots of the chat and health-goals routes
MaxRequests == 2
Requests == 1..MaxRequests

\* the file part of an upload form: a PDF, another type, or none
Files == {"pdf", "png", ""}

\* the guards "extractedText && extractedText !== 'Text extraction failed'"
TextUsable(t) == t # "" /\ t # ExtractionFailedText

\* a handler that has responded gives its response before anything else runs
RouteSettled ==
  \/ upload.pc = "Responded"
  \/ \E q \in Requests : requests[q].pc = "Responded"

\* the id the database gives the next row of lab_reports
FreeIds == { r \in ReportIds : labReports[r] = NoRow }
NextId == IF "r1" \in FreeIds THEN "r1" ELSE "r2"

\* the checks of the upload route before it reads the file: the status of
\* the early return, 0 when the request passes
UploadValidate(token, userId, file) ==
  IF token = "" THEN 401
  ELSE IF UserOf(token) = "" THEN 401
  ELSE IF userId # UserOf(token) THEN 403
  ELSE IF userId = "" THEN 401
  ELSE IF file = "" THEN 400
  ELSE IF file # "pdf" THEN 400
  ELSE 0

\* POST /api/lab/upload up to the start of the text extraction
UploadBegin(token, userId, file) ==
  /\ ~RouteSettled
  /\ upload.pc = "Idle"
  /\ FreeIds # {}
  /\ LET status == UploadValidate(token, userId, file)
         request == [IdleUpload EXCEPT !.token = token, !.userId = userId,
                                       !.file = file]
     IN upload' =
          IF status # 0
          THEN [request EXCEPT !.pc = "Responded", !.status = status]
          ELSE [request EXCEPT !.pc = "Extracting", !.user = UserOf(token)]
  /\ UNCHANGED << labReports, healthGoals, goalJobs, requests, ragIndex,
                  llmTexts >>
  /\ UNCHANGED libVars

\* the enhanced parser, its fallback, or neither gives the text; the three
\* guarded steps are skipped as one when the text is not usable
UploadExtract ==
  /\ ~RouteSettled
  /\ upload.pc = "Extracting"
  /\ \E t \in ExtractedTexts :
       upload' =
         [upload EXCEPT
            !.extractedText = t,
            !.failed = IF t = ExtractionFailedText
                       THEN @ \cup {"extraction"} ELSE @,
            !.pc = IF TextUsable(t) THEN "Analyzing" ELSE "Inserting"]
  /\ UNCHANGED << labReports, healthGoals, goalJobs, requests, ragIndex,
                  llmTexts >>
  /\ UNCHANGED libVars

\* the analysis resolves or throws; the catch keeps aiAnalysis null
UploadAnalyze ==
  /\ ~RouteSettled
  /\ upload.pc = "Analyzing"
  /\ \E ok \in BOOLEAN :
       upload' =
         [upload EXCEPT
            !.aiAnalysis = IF ok THEN "analysis" ELSE Null,
            !.failed = IF ok THEN @ ELSE @ \cup {"analysis"},
            !.pc = "Structuring"]
  /\ llmTexts' = llmTexts \cup {upload.extractedText}
  /\ UNCHANGED << labReports, healthGoals, goalJobs, requests, ragIndex >>
  /\ UNCHANGED libVars

\* extractStructuredDataEnhanced resolves with the tests it found, or with
\* none when every chunk's extraction failed
UploadStructure ==
  /\ ~RouteSettled
  /\ upload.pc = "Structuring"
  /\ \E ok \in BOOLEAN :
       upload' =
         [upload EXCEPT
            !.structuredData = IF ok THEN "tests" ELSE "no tests",
            !.failed = IF ok THEN @ ELSE @ \cup {"structured"},
            !.pc = "Recommending"]
  /\ llmTexts' = llmTexts \cup {upload.extractedText}
  /\ UNCHANGED << labReports, healthGoals, goalJobs, requests, ragIndex >>
  /\ UNCHANGED libVars

\* generatePersonalizedRecommendations resolves or throws; the insert is
\* requested next
UploadRecommend ==
  /\ ~RouteSettled
  /\ upload.pc = "Recommending"
  /\ \E ok \in BOOLEAN :
       upload' =
         [upload EXCEPT
            !.recommendations = IF ok THEN "recommendations" ELSE Null,
            !.failed = IF ok THEN @ ELSE @ \cup {"recommendations"},
            !.pc = "Inserting"]
  /\ llmTexts' = llmTexts \cup {upload.extractedText}
  /\ UNCHANGED << labReports, healthGoals, goalJobs, requests, ragIndex >>
  /\ UNCHANGED libVars

\* the row the upload inserts
UploadRow(u) ==
  [user_id |-> u.userId, raw_text |-> u.extractedText,
   ai_analysis |-> u.aiAnalysis, structured_data |-> u.structuredData,
   recommendations |-> u.recommendations]

\* generateHealthGoalsAsync(labReport.id, ...) runs to its first await: the
\* completion request of generateHealthGoals carries the raw text
FireGoalJob(r, rawText) ==
  /\ goalJobs' = [goalJobs EXCEPT
                    ![r] = [pc |-> "Generating", rawText |-> rawText,
                            failed |-> FALSE]]
  /\ llmTexts' = llmTexts \cup {rawText}

\* the insert answers: on an error the response is 500; otherwise the report
\* is indexed when its text is usable, and else the goals are started and
\* the email is sent
UploadInsert ==
  /\ ~RouteSettled
  /\ upload.pc = "Inserting"
  /\ \/ /\ upload' = [upload EXCEPT !.pc = "Responded", !.status = 500,
                                    !.failed = @ \cup {"insert"}]
        /\ UNCHANGED << labReports, goalJobs, llmTexts >>
     \/ /\ labReports' = [labReports EXCEPT ![NextId] = UploadRow(upload)]
        /\ IF TextUsable(upload.extractedText)
           THEN /\ upload' = [upload EXCEPT !.pc = "Indexing",
                                            !.labReport = NextId]
                /\ UNCHANGED << goalJobs, llmTexts >>
           ELSE /\ upload' = [upload EXCEPT !.pc = "Emailing",
                                            !.labReport = NextId]
                /\ FireGoalJob(NextId, upload.extractedText)
  /\ UNCHANGED << healthGoals, requests, ragIndex >>
  /\ UNCHANGED libVars

\* indexReportForChat resolves, caching the store, or throws and is logged;
\* the goals are started and the email is sent
UploadIndexed ==
  /\ ~RouteSettled
  /\ upload.pc = "Indexing"
  /\ \E ok \in BOOLEAN :
       /\ upload' = [upload EXCEPT
                       !.pc = "Emailing",
                       !.failed = IF ok THEN @ ELSE @ \cup {"indexing"}]
       /\ ragIndex' =
            IF ok
            THEN [ragIndex EXCEPT
                    ![upload.labReport] = [from |-> upload.extractedText,
                                           userId |-> upload.userId]]
            ELSE ragIndex
  /\ FireGoalJob(upload.labReport, upload.extractedText)
  /\ UNCHANGED << labReports, healthGoals, requests >>
  /\ UNCHANGED libVars

\* sendEmail's throw reaches the outer catch
UploadEmailed_Propagating ==
  /\ ~RouteSettled
  /\ upload.pc = "Emailing"
  /\ \E ok \in BOOLEAN :
       upload' = [upload EXCEPT
                    !.pc = "Responded", !.status = IF ok THEN 200 ELSE 500,
                    !.failed = IF ok THEN @ ELSE @ \cup {"email"}]
  /\ UNCHANGED << labReports, healthGoals, goalJobs, requests, ragIndex,
                  llmTexts >>
  /\ UNCHANGED libVars

\* sendEmail resolves or throws and is logged; the response is the success
UploadEmailed ==
  /\ ~RouteSettled
  /\ upload.pc = "Emailing"
  /\ \E ok \in BOOLEAN :
       upload' = [upload EXCEPT
                    !.pc = "Responded", !.status = 200,
                    !.failed = IF ok THEN @ ELSE @ \cup {"email"}]
  /\ UNCHANGED << labReports, healthGoals, goalJobs, requests, ragIndex,
                  llmTexts >>
  /\ UNCHANGED libVars

\* the response is sent
UploadReturn ==
  /\ upload.pc = "Responded"
  /\ upload' = IdleUpload
  /\ UNCHANGED << labReports, healthGoals, goalJobs, requests, ragIndex,
                  llmTexts >>
  /\ UNCHANGED libVars

\* the outcomes of generateHealthGoals: goals, an empty list, or a throw
GoalOutcomes == {"goals", "empty", "throws"}

\* generateHealthGoalsAsync: generateHealthGoals settles; goals are inserted,
\* anything else ends the call
GoalJobGenerated(r) ==
  /\ ~RouteSettled
  /\ goalJobs[r].pc = "Generating"
  /\ \E out \in GoalOutcomes :
       goalJobs' = [goalJobs EXCEPT
                      ![r].pc = IF out = "goals" THEN "Saving" ELSE "Done",
                      ![r].failed = (out # "goals")]
  /\ UNCHANGED << labReports, healthGoals, upload, requests, ragIndex,
                  llmTexts >>
  /\ UNCHANGED libVars

\* generateHealthGoalsAsync: the insert into health_goals answers
GoalJobSaved(r) ==
  /\ ~RouteSettled
  /\ goalJobs[r].pc = "Saving"
  /\ \E ok \in BOOLEAN :
       /\ goalJobs' = [goalJobs EXCEPT ![r].pc = "Done", ![r].failed = ~ok]
       /\ healthGoals' =
            IF ok THEN [healthGoals EXCEPT ![r] = @ + 1] ELSE healthGoals
  /\ UNCHANGED << labReports, upload, requests, ragIndex, llmTexts >>
  /\ UNCHANGED libVars

\* the first free request slot
FreeRequest(q) ==
  /\ requests[q].pc = "Idle"
  /\ \A o \in 1..(q - 1) : requests[o].pc # "Idle"

\* a request of route op that has responded with a status
Respond(request, status) ==
  [request EXCEPT !.pc = "Responded", !.status = status]

\* .eq("id", reportId).eq("user_id", userId).single() on lab_reports
ReportOf_AnyOwner(reportId, userId) == labReports[reportId]

ReportOf(reportId, userId) ==
  IF labReports[reportId].user_id = userId THEN labReports[reportId]
  ELSE NoRow

\* the checks of the health-goals POST before it reads lab_reports
GoalsValidate(token, reportId) ==
  IF token = "" THEN 401
  ELSE IF UserOf(token) = "" THEN 401
  ELSE IF reportId = "" THEN 400
  ELSE 0

\* POST to the health-goals route up to the read of the report
GoalsPostBegin(q, token, reportId) ==
  /\ ~RouteSettled
  /\ FreeRequest(q)
  /\ LET status == GoalsValidate(token, reportId)
         request == [IdleRequest EXCEPT !.op = "goals", !.token = token,
                                        !.reportId = reportId,
                                        !.user = UserOf(token)]
     IN requests' =
          [requests EXCEPT
             ![q] = IF status # 0 THEN Respond(request, status)
                    ELSE [request EXCEPT !.pc = "Fetching"]]
  /\ UNCHANGED << labReports, healthGoals, upload, goalJobs, ragIndex,
                  llmTexts >>
  /\ UNCHANGED libVars

\* the report is read: 404 unless it is a report of the user
GoalsPostFetch(q) ==
  /\ ~RouteSettled
  /\ requests[q].op = "goals"
  /\ requests[q].pc = "Fetching"
  /\ LET report == ReportOf(requests[q].reportId, requests[q].user)
     IN requests' =
          [requests EXCEPT
             ![q] = IF report = NoRow THEN Respond(@, 404)
                    ELSE [@ EXCEPT !.pc = "Checking",
                                   !.rawText = report.raw_text]]
  /\ UNCHANGED << labReports, healthGoals, upload, goalJobs, ragIndex,
                  llmTexts >>
  /\ UNCHANGED libVars

\* the existing goals are read: they are returned if there are any, and
\* else generateHealthGoals is called with the stored text
GoalsPostCheck(q) ==
  /\ ~RouteSettled
  /\ requests[q].op = "goals"
  /\ requests[q].pc = "Checking"
  /\ IF healthGoals[requests[q].reportId] > 0
     THEN /\ requests' = [requests EXCEPT ![q] = Respond(@, 200)]
          /\ UNCHANGED llmTexts
     ELSE /\ requests' = [requests EXCEPT ![q].pc = "Generating"]
          /\ llmTexts' = llmTexts \cup {requests[q].rawText}
  /\ UNCHANGED << labReports, healthGoals, upload, goalJobs, ragIndex >>
  /\ UNCHANGED libVars

\* generateHealthGoals settles: goals are inserted, an empty list or a
\* throw is a 500
GoalsPostGenerated(q) ==
  /\ ~RouteSettled
  /\ requests[q].op = "goals"
  /\ requests[q].pc = "Generating"
  /\ \E out \in GoalOutcomes :
       requests' =
         [requests EXCEPT
            ![q] = IF out = "goals" THEN [@ EXCEPT !.pc = "Saving"]
                   ELSE Respond(@, 500)]
  /\ UNCHANGED << labReports, healthGoals, upload, goalJobs, ragIndex,
                  llmTexts >>
  /\ UNCHANGED libVars

\* the insert into health_goals answers
GoalsPostSaved(q) ==
  /\ ~RouteSettled
  /\ requests[q].op = "goals"
  /\ requests[q].pc = "Saving"
  /\ \E ok \in BOOLEAN :
       /\ requests' =
            [requests EXCEPT ![q] = Respond(@, IF ok THEN 200 ELSE 500)]
       /\ healthGoals' =
            IF ok THEN [healthGoals EXCEPT ![requests[q].reportId] = @ + 1]
            ELSE healthGoals
  /\ UNCHANGED << labReports, upload, goalJobs, ragIndex, llmTexts >>
  /\ UNCHANGED libVars

\* the checks of the chat route before it reads lab_reports: the body is
\* checked before the session
ChatValidate(token, userId, reportId) ==
  IF token = "" THEN 401
  ELSE IF reportId = "" \/ userId = "" THEN 400
  ELSE IF UserOf(token) = "" THEN 401
  ELSE IF userId # UserOf(token) THEN 403
  ELSE 0

\* POST /api/lab/chat up to the read of the report
ChatBegin(q, token, userId, reportId) ==
  /\ ~RouteSettled
  /\ FreeRequest(q)
  /\ LET status == ChatValidate(token, userId, reportId)
         request == [IdleRequest EXCEPT !.op = "chat", !.token = token,
                                        !.userId = userId,
                                        !.reportId = reportId,
                                        !.user = UserOf(token)]
     IN requests' =
          [requests EXCEPT
             ![q] = IF status # 0 THEN Respond(request, status)
                    ELSE [request EXCEPT !.pc = "Fetching"]]
  /\ UNCHANGED << labReports, healthGoals, upload, goalJobs, ragIndex,
                  llmTexts >>
  /\ UNCHANGED libVars

\* the report is read: 404 unless it is a report of userId, 400 when its
\* raw text is blank; chatWithLabReportRAG then takes the cached store, or
\* starts indexing the raw text
ChatFetch(q) ==
  /\ ~RouteSettled
  /\ requests[q].op = "chat"
  /\ requests[q].pc = "Fetching"
  /\ LET report == ReportOf(requests[q].reportId, requests[q].userId)
         cached == ragIndex[requests[q].reportId]
     IN requests' =
          [requests EXCEPT
             ![q] = IF report = NoRow THEN Respond(@, 404)
                    ELSE IF report.raw_text = "" THEN Respond(@, 400)
                    ELSE IF cached # NoIndex
                    THEN [@ EXCEPT !.pc = "Answering",
                                   !.rawText = report.raw_text,
                                   !.context = cached]
                    ELSE [@ EXCEPT !.pc = "Indexing",
                                   !.rawText = report.raw_text]]
  /\ UNCHANGED << labReports, healthGoals, upload, goalJobs, ragIndex,
                  llmTexts >>
  /\ UNCHANGED libVars

\* the embedding of the raw text resolves and the store is cached and
\* searched, or it throws and the chat fails
ChatIndexed(q) ==
  /\ ~RouteSettled
  /\ requests[q].op = "chat"
  /\ requests[q].pc = "Indexing"
  /\ \/ /\ requests' = [requests EXCEPT ![q] = Respond(@, 500)]
        /\ UNCHANGED ragIndex
     \/ LET store == [from |-> requests[q].rawText,
                      userId |-> requests[q].userId]
        IN /\ ragIndex' = [ragIndex EXCEPT ![requests[q].reportId] = store]
           /\ requests' = [requests EXCEPT ![q].pc = "Answering",
                                           ![q].context = store]
  /\ UNCHANGED << labReports, healthGoals, upload, goalJobs, llmTexts >>
  /\ UNCHANGED libVars

\* the chunks found in the store are sent to the model with the question;
\* the completion resolves or throws
ChatAnswered(q) ==
  /\ ~RouteSettled
  /\ requests[q].op = "chat"
  /\ requests[q].pc = "Answering"
  /\ \E ok \in BOOLEAN :
       requests' = [requests EXCEPT ![q] = Respond(@, IF ok THEN 200 ELSE 500)]
  /\ llmTexts' = llmTexts \cup {requests[q].context.from}
  /\ UNCHANGED << labReports, healthGoals, upload, goalJobs, ragIndex >>
  /\ UNCHANGED libVars

\* the response of a chat or health-goals request is sent
RequestReturn(q) ==
  /\ requests[q].pc = "Responded"
  /\ requests' = [requests EXCEPT ![q] = IdleRequest]
  /\ UNCHANGED << labReports, healthGoals, upload, goalJobs, ragIndex,
                  llmTexts >>
  /\ UNCHANGED libVars

\* an upload arriving at an empty database
UploadInit ==
  /\ ChunkerIdle
  /\ OrchIdle
  /\ IndexIdle
  /\ labReports = [r \in ReportIds |-> NoRow]
  /\ healthGoals = [r \in ReportIds |-> 0]
  /\ upload = IdleUpload
  /\ goalJobs = [r \in ReportIds |-> NoJob]
  /\ requests = [q \in Requests |-> IdleRequest]
  /\ ragIndex = [r \in ReportIds |-> NoIndex]
  /\ llmTexts = {}
  /\ ExtractIdle
  /\ ProgressIdle

UploadNext ==
  \/ \E token \in AccessTokens, userId \in Users \cup {""}, file \in Files :
       UploadBegin(token, userId, file)
  \/ UploadExtract
  \/ UploadAnalyze
  \/ UploadStructure
  \/ UploadRecommend
  \/ UploadInsert
  \/ UploadIndexed
  \/ UploadEmailed
  \/ UploadReturn
  \/ \E r \in ReportIds : GoalJobGenerated(r)
  \/ \E r \in ReportIds : GoalJobSaved(r)

UploadSpec == UploadInit /\ [][UploadNext]_vars

\* the row an upload by user has stored for a PDF whose extraction gave t
StoredRow(user, t) ==
  [user_id |-> user, raw_text |-> t,
   ai_analysis |-> IF TextUsable(t) THEN "analysis" ELSE Null,
   structured_data |-> IF TextUsable(t) THEN "tests" ELSE Null,
   recommendations |-> IF TextUsable(t) THEN "recommendations" ELSE Null]

\* the store an upload has cached for a report of user
StoredIndex(user, t) == [from |-> t, userId |-> user]

\* health-goals requests arriving while u1's upload of r1 has responded and
\* its goal generation is still running; r2 is an older report of u2
GoalsInit ==
  /\ ChunkerIdle
  /\ OrchIdle
  /\ IndexIdle
  /\ labReports = [r \in ReportIds |->
                     StoredRow(IF r = "r1" THEN "u1" ELSE "u2", ReportText)]
  /\ healthGoals = [r \in ReportIds |-> 0]
  /\ upload = IdleUpload
  /\ goalJobs = [r \in ReportIds |->
                   IF r = "r1"
                   THEN [pc |-> "Generating", rawText |-> ReportText,
                         failed |-> FALSE]
                   ELSE [pc |-> "Done", rawText |-> ReportText,
                         failed |-> TRUE]]
  /\ requests = [q \in Requests |-> IdleRequest]
  /\ ragIndex = [r \in ReportIds |->
                   StoredIndex(IF r = "r1" THEN "u1" ELSE "u2", ReportText)]
  /\ llmTexts = {}
  /\ ExtractIdle
  /\ ProgressIdle

GoalsNext ==
  \/ \E r \in ReportIds : GoalJobGenerated(r)
  \/ \E r \in ReportIds : GoalJobSaved(r)
  \/ \E q \in Requests, token \in AccessTokens, reportId \in ReportIds \cup {""} :
       GoalsPostBegin(q, token, reportId)
  \/ \E q \in Requests : GoalsPostFetch(q)
  \/ \E q \in Requests : GoalsPostCheck(q)
  \/ \E q \in Requests : GoalsPostGenerated(q)
  \/ \E q \in Requests : GoalsPostSaved(q)
  \/ \E q \in Requests : RequestReturn(q)

GoalsSpec == GoalsInit /\ [][GoalsNext]_vars

\* chat requests arriving after uploads have finished: r1 is a report of u1
\* with any extraction result, r2 a report of u2; a report with usable text
\* is cached unless its indexing failed or the process restarted since
ChatInit ==
  /\ ChunkerIdle
  /\ OrchIdle
  /\ IndexIdle
  /\ \E t \in ExtractedTexts :
       /\ labReports = [r \in ReportIds |->
                          IF r = "r1" THEN StoredRow("u1", t)
                          ELSE StoredRow("u2", ReportText)]
       /\ \E cached \in SUBSET { r \in ReportIds : r = "r2" \/ TextUsable(t) } :
            ragIndex = [r \in ReportIds |->
                          IF r \in cached
                          THEN StoredIndex(labReports[r].user_id,
                                           labReports[r].raw_text)
                          ELSE NoIndex]
  /\ healthGoals = [r \in ReportIds |-> 0]
  /\ upload = IdleUpload
  /\ goalJobs = [r \in ReportIds |->
                   [pc |-> "Done", rawText |-> labReports[r].raw_text,
                    failed |-> TRUE]]
  /\ requests = [q \in Requests |-> IdleRequest]
  /\ llmTexts = {}
  /\ ExtractIdle
  /\ ProgressIdle

ChatNext ==
  \/ \E q \in Requests, token \in AccessTokens, userId \in Users \cup {""},
        reportId \in ReportIds \cup {""} :
       ChatBegin(q, token, userId, reportId)
  \/ \E q \in Requests : ChatFetch(q)
  \/ \E q \in Requests : ChatIndexed(q)
  \/ \E q \in Requests : ChatAnswered(q)
  \/ \E q \in Requests : RequestReturn(q)

ChatSpec == ChatInit /\ [][ChatNext]_vars

\* ------------------------------------------------------------------------
\* route properties

\* the upload has passed authentication and validation and has responded
UploadAnswered ==
  /\ upload.pc = "Responded"
  /\ UploadValidate(upload.token, upload.userId, upload.file) = 0

\* C23: an upload that passed authentication and validation responds with
\* success exactly when the insert of the report succeeded; the only error
\* is the failed insert, whatever else failed, and the stored row holds what
\* the steps produced, null where a step failed or was skipped.
C23_SuccessIffInserted ==
  UploadAnswered =>
    /\ upload.status \in {200, 500}
    /\ upload.status = 200 <=> upload.labReport # ""
    /\ upload.status = 500 <=> "insert" \in upload.failed
    /\ upload.status = 200 =>
         /\ labReports[upload.labReport] = UploadRow(upload)
         /\ "analysis" \in upload.failed => upload.aiAnalysis = Null
         /\ "recommendations" \in upload.failed
              => upload.recommendations = Null

\* every step that can fail did, the goal generation included, and the
\* upload still succeeded with a row without analysis
C23_Witness ==
  /\ UploadAnswered
  /\ upload.status = 200
  /\ {"analysis", "structured", "recommendations", "indexing", "email"}
       \subseteq upload.failed
  /\ goalJobs[upload.labReport].pc = "Done"
  /\ goalJobs[upload.labReport].failed
  /\ labReports[upload.labReport].ai_analysis = Null
  /\ labReports[upload.labReport].raw_text = ReportText

\* C24: the sentinel text of a failed extraction is never indexed and never
\* sent to a language model, neither by the upload nor by a later chat.
C24_SentinelNeverUsed ==
  /\ ExtractionFailedText \notin llmTexts
  /\ \A r \in ReportIds : ragIndex[r].from # ExtractionFailedText
  /\ \A q \in Requests : requests[q].context.from # ExtractionFailedText

\* C26: the health_goals table never holds more than one generated set of
\* goals for a report, however the upload's background generation and the
\* POSTs to the health-goals route interleave.
C26_GoalsStoredOnce == \A r \in ReportIds : healthGoals[r] <= 1

\* chat request q has passed the checks of the route: chatWithLabReportRAG
\* has been called for it
Retrieving(q) ==
  /\ requests[q].op = "chat"
  /\ \/ requests[q].pc \in {"Indexing", "Answering"}
     \/ requests[q].pc = "Responded" /\ requests[q].rawText # ""

\* C29: retrieval and the model are invoked for a chat request only when its
\* token is a user's session, its userId is that user and the report is a
\* row of that user; every cached index belongs to the owner of its report,
\* so the context a request gets is from a report of its own user.
C29_OwnContextOnly ==
  /\ \A q \in Requests :
       Retrieving(q) =>
         /\ UserOf(requests[q].token) # ""
         /\ requests[q].userId = UserOf(requests[q].token)
         /\ labReports[requests[q].reportId].user_id = requests[q].userId
         /\ requests[q].rawText = labReports[requests[q].reportId].raw_text
         /\ requests[q].context # NoIndex
              => requests[q].context.userId = UserOf(requests[q].token)
  /\ \A r \in ReportIds :
       ragIndex[r] # NoIndex => ragIndex[r].userId = labReports[r].user_id

\* a chat of one user was answered from its report's index while a report of
\* the other user is cached too
C29_Witness ==
  \E q \in Requests, r \in ReportIds :
    /\ Retrieving(q)
    /\ requests[q].pc = "Responded"
    /\ requests[q].status = 200
    /\ requests[q].context # NoIndex
    /\ r # requests[q].reportId
    /\ ragIndex[r] # NoIndex
    /\ ragIndex[r].userId # requests[q].userId

\* ------------------------------------------------------------------------
\* extractStructuredDataEnhanced

\* the most paragraphs of a report text under study
MaxParagraphs == 3

\* k paragraphs of 3001 characters: no two fit one chunk of 6000
RECURSIVE Paragraphs(_)
Paragraphs(k) ==
  IF k = 1 THEN << Run("a", 3001) >>
  ELSE Cat(Cat(Paragraphs(k - 1), << Run(NL, 2) >>), << Run("a", 3001) >>)

ExtractTexts ==
  { << Run("a", 10) >> } \cup { Paragraphs(k) : k \in 1..MaxParagraphs }

\* what one completion request can give: the request rejects; the content
\* is not JSON; it is the JSON null; it is an object without testResults;
\* testResults is not an array; testResults is an array of n tests
ExtractResponses ==
  { [kind |-> k, n |-> 0] :
      k \in {"rejected", "unparsable", "null", "missing", "notArray"} }
    \cup { [kind |-> "tests", n |-> n] : n \in 0..2 }

\* test j of the response to chunk c
Test(c, j) == << c, j >>

\* every testResults value is spread into allTests without the array test
TestsOf_AnyTestResults(resp, c) ==
  IF resp.kind = "tests" THEN [j \in 1..resp.n |-> Test(c, j)]
  ELSE IF resp.kind = "notArray" THEN << Test(c, 1) >>
  ELSE << >>

\* the body of the try for chunk c: what is pushed onto allTests; a throw
\* of create, of JSON.parse or of data.testResults on null is caught
TestsOf(resp, c) ==
  IF resp.kind = "tests" THEN [j \in 1..resp.n |-> Test(c, j)] ELSE << >>

\* the return without a client: an object with no extractedCount
NoClientResult ==
  << [testResults |-> << >>, hasCount |-> FALSE, extractedCount |-> 0] >>

\* return { testResults: allTests, extractedCount: allTests.length }
ExtractResult(allTests) ==
  << [testResults |-> allTests, hasCount |-> TRUE,
      extractedCount |-> Len(allTests)] >>

\* the call runs to its first await: the guard on the client, chunkText,
\* and the completion request for the first chunk
CallExtract ==
  /\ extraction.pc = "Called"
  /\ extraction' =
       IF ~groqReady
       THEN [extraction EXCEPT !.pc = "Returned", !.result = NoClientResult]
       ELSE [extraction EXCEPT
               !.pc = "Awaiting",
               !.chunks = chunkText(extraction.extractedText, DefaultChunkSize),
               !.i = 0,
               !.calls = << 1 >>]
  /\ UNCHANGED << chunkerVars, orchVars, indexVars, routeVars, progress >>

\* the completion for chunk i settles; the loop goes on to the next chunk's
\* request, or returns after the last
ExtractRespond(resp) ==
  /\ extraction.pc = "Awaiting"
  /\ LET allTests == extraction.allTests \o TestsOf(resp, extraction.i + 1)
         next == extraction.i + 1
         settled == [extraction EXCEPT
                       !.allTests = allTests,
                       !.responses = Append(@, resp),
                       !.i = next]
     IN extraction' =
          IF next < Len(extraction.chunks)
          THEN [settled EXCEPT !.calls = Append(@, next + 1)]
          ELSE [settled EXCEPT !.pc = "Returned",
                               !.result = ExtractResult(allTests)]
  /\ UNCHANGED << chunkerVars, orchVars, indexVars, routeVars, progress >>

ExtractInit ==
  /\ ChunkerIdle
  /\ groqReady \in BOOLEAN
  /\ extractedText = EmptyStr
  /\ pageCount = 1
  /\ pc = "Idle"
  /\ chunks = << >>
  /\ i = 0
  /\ chunkAnalyses = << >>
  /\ inflight = {}
  /\ log = << >>
  /\ outcome = Pending
  /\ IndexIdle
  /\ RouteIdle
  /\ ProgressIdle
  /\ \E t \in ExtractTexts :
       extraction = [pc |-> "Called", extractedText |-> t, chunks |-> << >>,
                     i |-> 0, allTests |-> << >>, calls |-> << >>,
                     responses |-> << >>, result |-> << >>]

ExtractNext ==
  \/ CallExtract
  \/ \E resp \in ExtractResponses : ExtractRespond(resp)

ExtractSpec == ExtractInit /\ [][ExtractNext]_vars

\* ------------------------------------------------------------------------
\* properties of extractStructuredDataEnhanced

\* the tests of the responses from position c on, in order, each response
\* giving its tests only when it is a testResults array
RECURSIVE Surviving(_, _)
Surviving(responses, c) ==
  IF c > Len(responses) THEN << >>
  ELSE (IF responses[c].kind = "tests"
        THEN [j \in 1..responses[c].n |-> << c, j >>] ELSE << >>)
         \o Surviving(responses, c + 1)

ExtractReturned == extraction.pc = "Returned"

\* the calls, results and count of a call that went through every chunk
AllChunksExtracted ==
  LET cs == chunkText(extraction.extractedText, DefaultChunkSize)
      result == extraction.result[1]
  IN /\ extraction.calls = [c \in 1..Len(cs) |-> c]
     /\ Len(extraction.responses) = Len(cs)
     /\ result.testResults = Surviving(extraction.responses, 1)
     /\ result.hasCount
     /\ result.extractedCount = Len(result.testResults)

\* C28 as stated: the function always issues one call per chunk, in order,
\* returns the surviving results in chunk order and an extractedCount equal
\* to their number.
C28_Original_AlwaysPerChunk == ExtractReturned => AllChunksExtracted

\* C28, amended: with a client the function issues one call per chunk, in
\* order, a failed, unparsable or array-less response adding nothing and
\* stopping nothing, and returns the surviving results in chunk order with
\* an extractedCount equal to their number; without a client it issues no
\* call and returns an empty testResults with no extractedCount. It never
\* throws.
C28_PerChunkWithClient ==
  /\ \A c \in 1..Len(extraction.calls) : extraction.calls[c] = c
  /\ extraction.pc = "Awaiting"
       => /\ Len(extraction.calls) = Len(extraction.responses) + 1
          /\ extraction.allTests = Surviving(extraction.responses, 1)
  /\ ExtractReturned =>
       /\ Len(extraction.result) = 1
       /\ groqReady => AllChunksExtracted
       /\ ~groqReady => /\ extraction.calls = << >>
                        /\ extraction.result = NoClientResult

\* the first chunk's call failed, the second gave no array, and the third
\* chunk's two tests were still extracted and returned
C28_Witness ==
  /\ ExtractReturned
  /\ groqReady
  /\ Len(extraction.responses) = 3
  /\ extraction.responses[1].kind = "rejected"
  /\ extraction.responses[2].kind = "notArray"
  /\ extraction.result[1].testResults = << << 3, 1 >>, << 3, 2 >> >>
  /\ extraction.result[1].extractedCount = 2

\* ------------------------------------------------------------------------
\* updateGoalStatus and the status update of the progress route

\* the most health goals of a baseline report, and the most progress items
\* of an analysis
MaxGoals == 2
MaxItems == 2

\* names as sequences of characters
LDL == << "L", "d", "l" >>
LDLCholesterol == << "L", "D", "L", " ", "c" >>
Glucose == << "G", "l", "u" >>

\* String.prototype.toLowerCase on the letters in use
LowerChar(c) ==
  IF c = "L" THEN "l" ELSE IF c = "D" THEN "d" ELSE IF c = "G" THEN "g" ELSE c
ToLowerCase(s) == [k \in 1..Len(s) |-> LowerChar(s[k])]

\* String.prototype.includes
Includes(s, sub) ==
  \E k \in 0..(Len(s) - Len(sub)) : SubSeq(s, k + 1, k + Len(sub)) = sub

\* the goals a report can have: target_metric absent or empty (<< >>) or
\* set, with any stored status
GoalStatuses == {"not_started", "active", "in_progress", "completed"}
Goals == [target_metric : {<< >>, LDL}, status : GoalStatuses]

\* the progress items an analysis can give
ItemStatuses == {"improved", "worsened", "stable", "normalized"}
Items == [metric_name : {LDLCholesterol, Glucose}, status : ItemStatuses]

\* all sequences over S of length at most m
RECURSIVE SeqsUpTo(_, _)
SeqsUpTo(S, m) ==
  IF m = 0 THEN { << >> }
  ELSE LET shorter == SeqsUpTo(S, m - 1) IN
    shorter \cup { Append(s, x) : s \in { y \in shorter : Len(y) = m - 1 },
                                  x \in S }

\* progressData.filter(p => goal.target_metric && p.metric_name
\*   .toLowerCase().includes(goal.target_metric.toLowerCase()))
RelevantProgress(goal, progressData) ==
  { x \in 1..Len(progressData) :
      /\ goal.target_metric # << >>
      /\ Includes(ToLowerCase(progressData[x].metric_name),
                  ToLowerCase(goal.target_metric)) }

\* relevantProgress.some(p => p.status === status)
Some(progressData, relevant, status) ==
  \E x \in relevant : progressData[x].status = status

\* the worsened test made before the others
updateGoalStatus_WorsenedFirst(goal, progressData) ==
  LET relevant == RelevantProgress(goal, progressData) IN
    IF relevant = {} THEN goal.status
    ELSE IF Some(progressData, relevant, "worsened") THEN "active"
    ELSE IF Some(progressData, relevant, "normalized") THEN "completed"
    ELSE "in_progress"

updateGoalStatus(goal, progressData) ==
  LET relevant == RelevantProgress(goal, progressData) IN
    IF relevant = {} THEN goal.status
    ELSE IF Some(progressData, relevant, "normalized") THEN "completed"
    ELSE IF Some(progressData, relevant, "improved") THEN "in_progress"
    ELSE IF Some(progressData, relevant, "worsened") THEN "active"
    ELSE "in_progress"

\* the goals were read and the analysis has arrived: the statuses are
\* updated only when there are goals and progress items
ProgressAnalyzed ==
  /\ progress.pc = "Analyzed"
  /\ progress' =
       [progress EXCEPT
          !.pc = IF Len(progress.healthGoals) > 0
                    /\ Len(progress.progress_items) > 0
                 THEN "Updating" ELSE "Responded",
          !.k = 1]
  /\ UNCHANGED << chunkerVars, orchVars, indexVars, routeVars, extraction >>

\* one turn of the loop over healthGoals: the new status of goal k is
\* computed and written to its row when it differs from the one read
ProgressUpdateGoal ==
  /\ progress.pc = "Updating"
  /\ LET k == progress.k
         goal == progress.healthGoals[k]
         newStatus == updateGoalStatus(goal, progress.progress_items)
         written ==
           IF newStatus # goal.status
           THEN [progress EXCEPT !.table[k].status = newStatus,
                                 !.writes = Append(@, k)]
           ELSE progress
     IN progress' =
          [written EXCEPT
             !.k = k + 1,
             !.pc = IF k = Len(progress.healthGoals)
                    THEN "Responded" ELSE "Updating"]
  /\ UNCHANGED << chunkerVars, orchVars, indexVars, routeVars, extraction >>

ProgressInit ==
  /\ ChunkerIdle
  /\ OrchIdle
  /\ IndexIdle
  /\ RouteIdle
  /\ ExtractIdle
  /\ \E goals \in SeqsUpTo(Goals, MaxGoals),
        items \in SeqsUpTo(Items, MaxItems) :
       progress = [pc |-> "Analyzed", table |-> goals, healthGoals |-> goals,
                   progress_items |-> items, k |-> 0, writes |-> << >>]

ProgressNext ==
  \/ ProgressAnalyzed
  \/ ProgressUpdateGoal

ProgressSpec == ProgressInit /\ [][ProgressNext]_vars

\* ------------------------------------------------------------------------
\* properties of the goal status update

\* the same letter in either case
SameLetter(a, b) ==
  \/ a = b
  \/ {a, b} \in {{"L", "l"}, {"D", "d"}, {"G", "g"}}

\* name contains target, letter case apart
Mentions(name, target) ==
  \E k \in 0..(Len(name) - Len(target)) :
    \A j \in 1..Len(target) : SameLetter(name[k + j], target[j])

\* the statuses of the items relevant to a goal
RelevantStatuses(goal, items) ==
  { items[x].status :
      x \in { y \in 1..Len(items) :
                Mentions(items[y].metric_name, goal.target_metric) } }

\* the status the claim gives a goal
ClaimedStatus(goal, items) ==
  LET statuses == RelevantStatuses(goal, items) IN
    IF goal.target_metric = << >> \/ statuses = {} THEN goal.status
    ELSE IF "normalized" \in statuses THEN "completed"
    ELSE IF "improved" \in statuses THEN "in_progress"
    ELSE IF "worsened" \in statuses THEN "active"
    ELSE "in_progress"

\* C30: updateGoalStatus gives each goal the status of the claim's rule, and
\* the progress route has written exactly the goals whose computed status
\* differs from the stored one, each row then holding the computed status.
C30_StatusRule ==
  LET goals == progress.healthGoals
      items == progress.progress_items
      done == IF progress.pc = "Responded" THEN Len(goals)
              ELSE progress.k - 1
  IN /\ \A g \in 1..Len(goals) :
          updateGoalStatus(goals[g], items) = ClaimedStatus(goals[g], items)
     /\ progress.pc \in {"Updating", "Responded"} =>
          /\ \A g \in 1..Len(goals) :
               (\E w \in 1..Len(progress.writes) : progress.writes[w] = g)
                 <=> /\ g <= done
                     /\ Len(items) > 0
                     /\ ClaimedStatus(goals[g], items) # goals[g].status
          /\ \A g \in 1..Len(goals) :
               progress.table[g].status =
                 IF g <= done /\ Len(items) > 0
                 THEN ClaimedStatus(goals[g], items) ELSE goals[g].status

\* with a normalized and a worsened item in the analysis, the first goal
\* went from not_started to completed and was written, and the second, whose
\* stored status was already the computed one, was not written
C30_Witness ==
  /\ progress.pc = "Responded"
  /\ Len(progress.healthGoals) = 2
  /\ progress.writes = << 1 >>
  /\ progress.table[1].status = "completed"
  /\ progress.healthGoals[1].status = "not_started"
  /\ progress.healthGoals[2].target_metric = LDL
  /\ progress.healthGoals[2].status = "completed"
  /\ \E x \in 1..Len(progress.progress_items) :
       progress.progress_items[x].status = "worsened"

====
